---- MODULE Spec2Model ----
(***************************************************************************)
(* SpendSense: recommendation orchestration (generation + approval state   *)
(* machine), guardrails and the feature / persona / consent stores it      *)
(* reads.  Each HTTP handler is one atomic action on the committed         *)
(* contents of the relational store; a db.commit() that raises is an       *)
(* input of the handler (parameter fail).                                  *)
(***************************************************************************)
EXTENDS Integers, Sequences, FiniteSets, TLC

\* ------------------------------------------------------------------ bounds
MaxRequests == 3      \* requests served in one behaviour of Spec
MaxReviews  == 3      \* requests served in one behaviour of SpecReview
MaxRegens   == 3      \* requests served in one behaviour of SpecRegen
MaxCalls    == 3      \* service calls begun in one behaviour of SpecUpsert
MaxCards    == 2      \* credit-card accounts of the user in SpecCredit
MaxEdits    == 3      \* requests served in SpecDisclosure
MaxDates    == 4      \* transaction dates of one merchant in SpecRecurring
MaxCatalog  == 4      \* product offers in the catalog of SpecMatch
MaxTextLen  == 3      \* tokens in a text given to validate_tone in SpecTone
MaxTxns     == 3      \* transactions of the user in SpecIncome
MaxAssigns  == 2      \* requests served in one behaviour of SpecPersona
MaxRecs     == 2      \* recommendation rows ever created
MaxItems    == 2      \* items in one provider answer
MaxIds      == 2      \* ids in one bulk-approve request

\* ------------------------------------------------------------- null values
NULL   == "NULL"      \* None in a string column
NoTime == 0           \* None in a DateTime column; the clock starts at 1
NoText == <<>>        \* None / "" for a text argument (both falsy)
NoJson == <<>>        \* None in a JSON text column
NoNumber == -1        \* None in a Float column

\* ------------------------------------------------------------ input sets
UserIds   == {"u1", "u2"}
Windows   == {30, 180}
Operators == {"op1"}
PersonaTypes == {"high_utilization", "variable_income", "subscription_heavy",
                 "savings_builder", "wealth_builder"}
Statuses  == {"pending_approval", "approved", "overridden", "rejected"}

\* ------------------------------------------------------------------- text
\* A text is a sequence of tokens; a token is a word or phrase in the case
\* it was written in.  str.lower() maps every token to its lower-case form
\* and `phrase in text` holds when some lower-cased token is the phrase.
Lower(tok) ==
  CASE tok = "You Can"             -> "you can"
    [] tok = "Consider"            -> "consider"
    [] tok = "You're Overspending" -> "you're overspending"
    [] tok = "Bad Habit"           -> "bad habit"
    [] tok = "You Need To"         -> "you need to"
    [] tok = "Save"                -> "save"
    [] OTHER                       -> tok

lower(content) == [i \in DOMAIN content |-> Lower(content[i])]

Contains(text, phrase) == \E i \in DOMAIN text : text[i] = phrase

forbidden_phrases ==
  << "you're overspending", "bad habit", "poor financial decision",
     "irresponsible", "wasteful spending", "you should stop", "you need to" >>

empowering_keywords ==
  << "you can", "let's", "many people", "common challenge", "opportunity",
     "consider", "explore" >>

ForbiddenWarning(phrase) ==
  [severity |-> "critical", type |-> "forbidden_phrase",
   message  |-> <<"Contains shaming language", phrase>>]

NotableWarning ==
  [severity |-> "notable", type |-> "lacks_empowering_language",
   message  |-> <<"Content lacks empowering tone - no empowering keywords found">>]

RECURSIVE ForbiddenWarnings(_, _)
ForbiddenWarnings(content_lower, i) ==
  IF i > Len(forbidden_phrases) THEN <<>>
  ELSE (IF Contains(content_lower, forbidden_phrases[i])
          THEN <<ForbiddenWarning(forbidden_phrases[i])>> ELSE <<>>)
       \o ForbiddenWarnings(content_lower, i + 1)

has_empowering_language(content_lower) ==
  \E k \in DOMAIN empowering_keywords :
     Contains(content_lower, empowering_keywords[k])

\* mutant: the text is not lower-cased before it is searched
validate_toneCaseSensitive(content) ==
  LET warnings == ForbiddenWarnings(content, 1)
                  \o (IF has_empowering_language(content)
                        THEN <<>> ELSE <<NotableWarning>>)
  IN  [is_valid |-> Len(warnings) = 0, validation_warnings |-> warnings]

validate_tone(content) ==
  LET content_lower == lower(content)
      warnings == ForbiddenWarnings(content_lower, 1)
                  \o (IF has_empowering_language(content_lower)
                        THEN <<>> ELSE <<NotableWarning>>)
  IN  [is_valid |-> Len(warnings) = 0, validation_warnings |-> warnings]

MANDATORY_DISCLOSURE ==
  "This is educational content, not financial advice. Consult a licensed advisor for personalized guidance."

\* content.strip(): drop leading and trailing white-space tokens
IsSpace(tok) == tok \in {" ", "\n\n"}

RECURSIVE rstrip(_)
rstrip(t) ==
  IF t = <<>> THEN t
  ELSE IF IsSpace(t[Len(t)]) THEN rstrip(SubSeq(t, 1, Len(t) - 1)) ELSE t

\* the tokens whose last character is a period
EndsWithPeriod(content) ==
  LET s == rstrip(content)
  IN  s # <<>> /\ s[Len(s)] \in {".", MANDATORY_DISCLOSURE}

\* mutant: no period is added
append_disclosureNoPeriod(content) ==
  content \o <<"\n\n", MANDATORY_DISCLOSURE>>

append_disclosure(content) ==
  IF EndsWithPeriod(content)
    THEN content \o <<"\n\n", MANDATORY_DISCLOSURE>>
    ELSE content \o <<".", "\n\n", MANDATORY_DISCLOSURE>>

\* ------------------------------------------------------------ dict / json
DictPop(d, k)    == [x \in DOMAIN d \ {k} |-> d[x]]
DictSet(d, k, v) == [x \in DOMAIN d \cup {k} |-> IF x = k THEN v ELSE d[x]]
EmptyDict        == [x \in {} |-> NULL]
json_dumps(d)    == <<"json", d>>
json_loads(s)    == s[2]

\* ------------------------------------------------------------------ state
VARIABLES
  users,             \* set of user_id with a User row
  consent_status,    \* User.consent_status per user_id
  consent_log,       \* ConsentLog rows, in insertion order
  user_features,     \* <<user_id, window_days>> -> UserFeature row or NoFeature
  personas,          \* <<user_id, window_days>> -> Persona row or NoPersona
  recommendations,   \* Recommendation rows; recommendation_id = index
  operator_actions,  \* OperatorAction rows, in insertion order
  created_with,      \* per recommendation: which rows existed when it was created
  now,               \* number of requests served (logical clock)
  resp,              \* the request just served and its response
  service_calls      \* per worker: the upsert service call it is executing

vars == << users, consent_status, consent_log, user_features, personas,
           recommendations, operator_actions, created_with, now, resp,
           service_calls >>

Keys == UserIds \X Windows

\* processes that call the feature and persona services on their own
\* database sessions
Workers == {"w1", "w2"}

Idle == [pc |-> "idle"]

NoPersona == [persona_type |-> NULL, confidence_score |-> 0]

\* A UserFeature row: utilizations, rates and shares in hundredths, months
\* in tenths, money in whole dollars; median_pay_gap_days is <<>> (NULL)
\* or <<days>>.
NoFeature == [exists |-> FALSE]

FeatureSnapshots ==
  { [exists |-> TRUE,
     recurring_merchants |-> 0, monthly_recurring_spend |-> 0,
     subscription_spend_share |-> 0,
     net_savings_inflow |-> 0, savings_growth_rate |-> 0,
     avg_utilization |-> 60, max_utilization |-> 85,
     minimum_payment_only_flag |-> FALSE, interest_charges_present |-> FALSE,
     any_overdue |-> FALSE,
     median_pay_gap_days |-> <<60>>, cash_flow_buffer_months |-> 5,
     avg_monthly_income |-> 4000, investment_account_detected |-> FALSE],
    [exists |-> TRUE,
     recurring_merchants |-> 1, monthly_recurring_spend |-> 10,
     subscription_spend_share |-> 2,
     net_savings_inflow |-> 0, savings_growth_rate |-> 0,
     avg_utilization |-> 35, max_utilization |-> 40,
     minimum_payment_only_flag |-> FALSE, interest_charges_present |-> FALSE,
     any_overdue |-> FALSE,
     median_pay_gap_days |-> <<>>, cash_flow_buffer_months |-> 20,
     avg_monthly_income |-> 4000, investment_account_detected |-> FALSE] }

\* what the account / transaction lookups of check_wealth_builder return
AccountLookups == { [savings_balance |-> 30000, has_fees |-> FALSE],
                    [savings_balance |-> 30000, has_fees |-> TRUE],
                    [savings_balance |-> 25000, has_fees |-> FALSE] }

check_high_utilization(features) ==
  \/ features.max_utilization >= 50
  \/ features.interest_charges_present
  \/ features.minimum_payment_only_flag
  \/ features.any_overdue

check_variable_income(features) ==
  /\ features.median_pay_gap_days # <<>>
  /\ features.median_pay_gap_days[1] > 45
  /\ features.cash_flow_buffer_months < 10

check_subscription_heavy(features) ==
  /\ features.recurring_merchants >= 3
  /\ \/ features.monthly_recurring_spend >= 50
     \/ features.subscription_spend_share >= 10

check_savings_builder(features) ==
  /\ \/ features.savings_growth_rate >= 2
     \/ features.net_savings_inflow >= 200
  /\ features.avg_utilization < 30

check_wealth_builder(lookup, features) ==
  /\ features.avg_monthly_income > 10000
  /\ lookup.savings_balance > 25000
  /\ features.max_utilization <= 20
  /\ ~lookup.has_fees
  /\ features.investment_account_detected

\* matched personas in evaluation order; priorities in hundredths
MatchedPersonas(lookup, features) ==
  (IF check_wealth_builder(lookup, features)
     THEN <<[persona_type |-> "wealth_builder", confidence_score |-> 100]>> ELSE <<>>)
  \o (IF check_high_utilization(features)
     THEN <<[persona_type |-> "high_utilization",
             confidence_score |-> IF features.max_utilization >= 80 THEN 95 ELSE 80]>>
     ELSE <<>>)
  \o (IF check_savings_builder(features)
     THEN <<[persona_type |-> "savings_builder", confidence_score |-> 70]>> ELSE <<>>)
  \o (IF check_variable_income(features)
     THEN <<[persona_type |-> "variable_income", confidence_score |-> 60]>> ELSE <<>>)
  \o (IF check_subscription_heavy(features)
     THEN <<[persona_type |-> "subscription_heavy", confidence_score |-> 50]>> ELSE <<>>)

\* mutant: the sort is ascending
TopPersonaAscending(matched_personas) ==
  LET best == CHOOSE i \in DOMAIN matched_personas :
                \A j \in DOMAIN matched_personas :
                   \/ matched_personas[j].confidence_score
                        > matched_personas[i].confidence_score
                   \/ /\ matched_personas[j].confidence_score
                           = matched_personas[i].confidence_score
                      /\ i <= j
  IN  matched_personas[best]

\* first element of the list after the stable sort by priority, descending
TopPersona(matched_personas) ==
  LET best == CHOOSE i \in DOMAIN matched_personas :
                \A j \in DOMAIN matched_personas :
                   \/ matched_personas[j].confidence_score
                        < matched_personas[i].confidence_score
                   \/ /\ matched_personas[j].confidence_score
                           = matched_personas[i].confidence_score
                      /\ i <= j
  IN  matched_personas[best]

\* mutant: the two fallback confidences are the same
assign_personaOneFallback(lookup, features) ==
  IF ~features.exists \/ MatchedPersonas(lookup, features) = <<>>
    THEN [persona_type |-> "savings_builder", confidence_score |-> 20]
  ELSE TopPersona(MatchedPersonas(lookup, features))

assign_persona(lookup, features) ==
  IF ~features.exists
    THEN [persona_type |-> "savings_builder", confidence_score |-> 10]
  ELSE IF MatchedPersonas(lookup, features) = <<>>
    THEN [persona_type |-> "savings_builder", confidence_score |-> 20]
  ELSE TopPersona(MatchedPersonas(lookup, features))

RecIds   == 1 .. Len(recommendations)
IdInputs == {0} \cup RecIds       \* 0 is an id that never exists

Respond(op, code, detail, args, body) ==
  [op |-> op, code |-> code, detail |-> detail, args |-> args, body |-> body]

NoCall == [raises |-> FALSE, items |-> <<>>]

\* provider_calls and provider record what the request did with the
\* generative provider; they are not part of the HTTP response
NoBody == [provider_calls |-> 0, provider |-> NoCall]

Init ==
  /\ users = {"u1"}
  /\ consent_status \in [UserIds -> BOOLEAN]
  /\ \A u \in UserIds \ users : ~consent_status[u]
  /\ consent_log = <<>>
  /\ user_features = [k \in Keys |-> NoFeature]
  /\ personas = [k \in Keys |-> NoPersona]
  /\ recommendations = <<>>
  /\ operator_actions = <<>>
  /\ created_with = <<>>
  /\ now = 0
  /\ resp = Respond("init", 0, NULL, [user_id |-> NULL], NoBody)
  /\ service_calls = [w \in Workers |-> Idle]

Tick == now' = now + 1

\* ---------------------------------------------------------------- consent
\* mutant: the stored consent flag is not read
check_consentUserExists(user_id) == user_id \in users

check_consent(user_id) ==
  IF user_id \notin users THEN FALSE ELSE consent_status[user_id]

\* mutant: a request that does not change the status is not logged
update_consentLogOnChange(user_id, action) ==
  /\ Tick
  /\ UNCHANGED service_calls
  /\ UNCHANGED << users, user_features, personas, recommendations,
                  operator_actions, created_with >>
  /\ LET args == [user_id |-> user_id, action |-> action] IN
     IF user_id \notin users
       THEN /\ resp' = Respond("consent", 404, "user_not_found", args, NoBody)
            /\ UNCHANGED << consent_status, consent_log >>
     ELSE \E fail \in BOOLEAN :
       IF fail
         THEN /\ resp' = Respond("consent", 500, "commit_failed", args, NoBody)
              /\ UNCHANGED << consent_status, consent_log >>
         ELSE /\ consent_status' = [consent_status EXCEPT ![user_id] = (action = "grant")]
              /\ consent_log' =
                   IF consent_status[user_id] = (action = "grant")
                     THEN consent_log
                     ELSE Append(consent_log,
                            [user_id |-> user_id,
                             action  |-> IF action = "grant" THEN "granted"
                                                             ELSE "revoked",
                             timestamp |-> now'])
              /\ resp' = Respond("consent", 200, NULL, args, NoBody)

update_consent(user_id, action) ==
  /\ Tick
  /\ UNCHANGED service_calls
  /\ UNCHANGED << users, user_features, personas, recommendations,
                  operator_actions, created_with >>
  /\ LET args == [user_id |-> user_id, action |-> action] IN
     IF user_id \notin users
       THEN /\ resp' = Respond("consent", 404, "user_not_found", args, NoBody)
            /\ UNCHANGED << consent_status, consent_log >>
     ELSE \E fail \in BOOLEAN :
       IF fail
         THEN /\ resp' = Respond("consent", 500, "commit_failed", args, NoBody)
              /\ UNCHANGED << consent_status, consent_log >>
         ELSE /\ consent_status' = [consent_status EXCEPT ![user_id] = (action = "grant")]
              /\ consent_log' = Append(consent_log,
                     [user_id |-> user_id,
                      action  |-> IF action = "grant" THEN "granted" ELSE "revoked",
                      timestamp |-> now'])
              /\ resp' = Respond("consent", 200, NULL, args, NoBody)

\* ------------------------------------------------------ features / persona
\* mutant: an existing row is left as it is
UpsertFeatureInsertOnly(existing_feature, all_features) ==
  IF existing_feature.exists THEN existing_feature ELSE all_features

\* The UserFeature row compute_all_features stores: every key of
\* all_features is set on the existing row, or a new row is created from
\* all_features.
UpsertFeature(existing_feature, all_features) ==
  IF existing_feature.exists
    THEN [key \in DOMAIN existing_feature |->
            IF key \in DOMAIN all_features THEN all_features[key]
                                           ELSE existing_feature[key]]
    ELSE all_features

\* The snapshot is computed from the user's current accounts and
\* transactions, which are not part of this state: an input.
compute_features(user_id, window_days) ==
  /\ Tick
  /\ UNCHANGED service_calls
  /\ UNCHANGED << users, consent_status, consent_log, personas, recommendations,
                  operator_actions, created_with >>
  /\ LET args == [user_id |-> user_id, window_days |-> window_days] IN
     IF user_id \notin users
       THEN /\ resp' = Respond("features", 404, "user_not_found", args, NoBody)
            /\ UNCHANGED user_features
     ELSE \E all_features \in FeatureSnapshots, fail \in BOOLEAN :
       IF fail
         THEN /\ resp' = Respond("features", 500, "commit_failed", args, NoBody)
              /\ UNCHANGED user_features
         ELSE /\ user_features' =
                   [user_features EXCEPT ![<<user_id, window_days>>] =
                      UpsertFeature(@, all_features)]
              /\ resp' = Respond("features", 200, NULL, args,
                                 [provider_calls |-> 0, provider |-> NoCall,
                                  features |-> all_features,
                                  updated |-> user_features[<<user_id, window_days>>].exists])

assign_and_save_persona(user_id, window_days) ==
  /\ Tick
  /\ UNCHANGED service_calls
  /\ UNCHANGED << users, consent_status, consent_log, user_features,
                  recommendations, operator_actions, created_with >>
  /\ LET args == [user_id |-> user_id, window_days |-> window_days] IN
     IF user_id \notin users
       THEN /\ resp' = Respond("persona", 404, "user_not_found", args, NoBody)
            /\ UNCHANGED personas
     ELSE \E lookup \in AccountLookups, fail \in BOOLEAN :
       IF fail
         THEN /\ resp' = Respond("persona", 500, "commit_failed", args, NoBody)
              /\ UNCHANGED personas
         ELSE /\ personas' = [personas EXCEPT ![<<user_id, window_days>>] =
                     assign_persona(lookup, user_features[<<user_id, window_days>>])]
              /\ resp' = Respond("persona", 200, NULL, args,
                    [provider_calls |-> 0, provider |-> NoCall,
                     lookup |-> lookup,
                     persona_type |->
                       assign_persona(lookup,
                          user_features[<<user_id, window_days>>]).persona_type,
                     confidence_score |->
                       assign_persona(lookup,
                          user_features[<<user_id, window_days>>]).confidence_score])

\* ------------------------------------------------------------- generation
\* Items the generative provider may return.  metadata is the dict the
\* provider attached (is_dict = FALSE: the value is not a dict).
StaleWarning ==
  [severity |-> "notable", type |-> "stale", message |-> <<"from provider">>]

ProviderItems ==
  { [title |-> "Build savings", rationale |-> "R1",
     content  |-> <<"You Can", "Save", ".", " ">>,
     metadata |-> [is_dict |-> TRUE,
                   d |-> [token_usage |-> 900, estimated_cost_usd |-> 2,
                          model |-> "gpt",
                          validation_warnings |-> <<StaleWarning>>]]],
    [title |-> "Card tips", rationale |-> "R2",
     content  |-> <<"You're Overspending", "Bad Habit">>,
     metadata |-> [is_dict |-> FALSE, d |-> EmptyDict]] }

RECURSIVE SeqsUpTo(_, _)
SeqsUpTo(S, n) ==
  IF n = 0 THEN {<<>>}
  ELSE LET shorter == SeqsUpTo(S, n - 1)
       IN  shorter \cup {Append(q, x) : q \in shorter, x \in S}

\* What one call of generate_recommendations_via_openai can do: raise, or
\* return a (possibly empty) list of items.
ProviderOutcomes ==
  {[raises |-> TRUE, items |-> <<>>]}
  \cup {[raises |-> FALSE, items |-> l] : l \in SeqsUpTo(ProviderItems, MaxItems)}

GenTimes == {1200}     \* measured milliseconds

\* rows of (user, window) in 'pending_approval', in id order
ExistingPending(user_id, window_days) ==
  SelectSeq([i \in RecIds |-> i],
            LAMBDA i : /\ recommendations[i].user_id = user_id
                       /\ recommendations[i].window_days = window_days
                       /\ recommendations[i].status = "pending_approval")

\* mutant: the force flag is read the wrong way round
CacheHitWhenForced(existing_recommendations, force_regenerate) ==
  existing_recommendations # <<>> /\ force_regenerate

CacheHit(existing_recommendations, force_regenerate) ==
  existing_recommendations # <<>> /\ ~force_regenerate

RecView(i) ==
  [recommendation_id |-> i,
   title    |-> recommendations[i].title,
   content  |-> recommendations[i].content,
   status   |-> recommendations[i].status,
   metadata_json |-> recommendations[i].metadata_json]

\* The context handed to the provider: the signal groups come from the
\* UserFeature row of the window, or are defaults when there is none.
\* Accounts and transactions are not part of this state: empty lists.
build_user_context(user_id, window_days) ==
  LET user_feature == user_features[<<user_id, window_days>>]
      persona == personas[<<user_id, window_days>>]
  IN  [user_id |-> user_id, window_days |-> window_days,
       persona_type |-> persona.persona_type,
       subscription_signals |->
         IF user_feature.exists
           THEN [recurring_merchants |-> user_feature.recurring_merchants,
                 monthly_recurring_spend |-> user_feature.monthly_recurring_spend,
                 subscription_spend_share |-> user_feature.subscription_spend_share]
           ELSE [recurring_merchants |-> 0, monthly_recurring_spend |-> 0,
                 subscription_spend_share |-> 0],
       savings_signals |->
         IF user_feature.exists
           THEN [net_savings_inflow |-> user_feature.net_savings_inflow,
                 savings_growth_rate |-> user_feature.savings_growth_rate]
           ELSE [net_savings_inflow |-> 0, savings_growth_rate |-> 0],
       credit_signals |->
         IF user_feature.exists
           THEN [avg_utilization |-> user_feature.avg_utilization,
                 max_utilization |-> user_feature.max_utilization,
                 minimum_payment_only_flag |-> user_feature.minimum_payment_only_flag,
                 interest_charges_present |-> user_feature.interest_charges_present,
                 any_overdue |-> user_feature.any_overdue]
           ELSE [avg_utilization |-> 0, max_utilization |-> 0,
                 minimum_payment_only_flag |-> FALSE,
                 interest_charges_present |-> FALSE, any_overdue |-> FALSE],
       income_signals |->
         IF user_feature.exists
           THEN [median_pay_gap_days |-> user_feature.median_pay_gap_days,
                 cash_flow_buffer_months |-> user_feature.cash_flow_buffer_months,
                 avg_monthly_income |-> user_feature.avg_monthly_income]
           ELSE [median_pay_gap_days |-> <<>>, cash_flow_buffer_months |-> 0,
                 avg_monthly_income |-> 0],
       accounts |-> <<>>,
       recent_transactions |-> <<>>]

required_fields ==
  << "user_id", "window_days", "persona_type", "subscription_signals",
     "savings_signals", "credit_signals", "income_signals", "accounts",
     "recent_transactions" >>

validate_context(context) ==
  \A i \in DOMAIN required_fields : required_fields[i] \in DOMAIN context

\* metadata persisted for one provider item
SavedMetadata(rec_dict) ==
  LET metadata == IF rec_dict.metadata.is_dict THEN rec_dict.metadata.d
                                                ELSE EmptyDict
      stripped == DictPop(DictPop(metadata, "token_usage"), "estimated_cost_usd")
  IN  DictSet(stripped, "validation_warnings",
              validate_tone(rec_dict.content).validation_warnings)

NewRecommendation(user_id, window_days, persona_type, rec_dict, generation_time_ms) ==
  [user_id      |-> user_id,
   persona_type |-> persona_type,
   window_days  |-> window_days,
   content_type |-> "education",
   title        |-> rec_dict.title,
   content      |-> append_disclosure(rec_dict.content),
   rationale    |-> rec_dict.rationale,
   status       |-> "pending_approval",
   approved_by  |-> NULL,
   approved_at  |-> NoTime,
   override_reason  |-> NULL,
   original_content |-> NoJson,
   metadata_json    |-> json_dumps(SavedMetadata(rec_dict)),
   generation_time_ms |-> generation_time_ms,
   expires_at   |-> NoTime]

\* mutant: items whose tone validation fails are skipped
RecommendationsToSaveValidOnly(user_id, window_days, persona_type, items, ms) ==
  LET kept == SelectSeq(items, LAMBDA it : validate_tone(it.content).is_valid)
  IN  [i \in DOMAIN kept |->
         NewRecommendation(user_id, window_days, persona_type, kept[i], ms)]

\* the rows generate_recommendations adds for the provider's items
RecommendationsToSave(user_id, window_days, persona_type, items, ms) ==
  [i \in DOMAIN items |->
     NewRecommendation(user_id, window_days, persona_type, items[i], ms)]

\* mutant: the persona check is missing
PersonaMissingNever(persona) == FALSE

PersonaMissing(persona) == persona = NoPersona

\* mutant: an empty answer is not an error
GenerationErrorOnlyRaise(outcome) ==
  IF outcome.raises THEN "provider_failed" ELSE NULL

\* how generate_recommendations reads the provider's answer: the error it
\* raises, or NULL when the answer goes on to be persisted
GenerationError(outcome) ==
  IF outcome.raises THEN "provider_failed"
  ELSE IF outcome.items = <<>> THEN "provider_empty"
  ELSE NULL

\* mutant: the rows of the same user and window that are still pending
\* are deleted before the new ones are added
add_allReplacingPending(table, rows) ==
  SelectSeq(table, LAMBDA row :
              ~(/\ rows # <<>>
                /\ row.status = "pending_approval"
                /\ row.user_id = rows[1].user_id
                /\ row.window_days = rows[1].window_days)) \o rows

\* db.add_all(recommendation_objects) and the commit: rows are inserted
add_all(table, rows) == table \o rows

generate_recommendations(user_id, window_days, force_regenerate) ==
  /\ Tick
  /\ UNCHANGED service_calls
  /\ UNCHANGED << users, consent_status, consent_log, user_features, personas,
                  operator_actions >>
  /\ LET args == [user_id |-> user_id, window_days |-> window_days,
                  force_regenerate |-> force_regenerate]
         existing_recommendations == ExistingPending(user_id, window_days)
         persona == personas[<<user_id, window_days>>]
         Fail(code, detail, calls, outcome) ==
           /\ resp' = Respond("generate", code, detail, args,
                              [provider_calls |-> calls, provider |-> outcome])
           /\ UNCHANGED << recommendations, created_with >>
     IN
     IF user_id \notin users THEN Fail(404, "user_not_found", 0, NoCall)
     ELSE IF ~check_consent(user_id) THEN Fail(403, "no_consent", 0, NoCall)
     ELSE IF CacheHit(existing_recommendations, force_regenerate)
       THEN /\ resp' = Respond("generate", 200, NULL, args,
                 [provider_calls |-> 0, provider |-> NoCall,
                  persona |-> persona.persona_type,
                  recommendations |->
                     [k \in DOMAIN existing_recommendations |->
                        RecView(existing_recommendations[k])],
                  generation_time_ms |-> 0,
                  cached |-> TRUE])
            /\ UNCHANGED << recommendations, created_with >>
     ELSE IF PersonaMissing(persona) THEN Fail(400, "no_persona", 0, NoCall)
     ELSE IF ~validate_context(build_user_context(user_id, window_days))
       THEN Fail(400, "invalid_context", 0, NoCall)
     ELSE \E outcome \in ProviderOutcomes :
       /\ Len(recommendations) + Len(outcome.items) <= MaxRecs
       /\ IF GenerationError(outcome) # NULL
            THEN Fail(500, GenerationError(outcome), 1, outcome)
          ELSE \E ms \in GenTimes, fail \in BOOLEAN :
            IF fail THEN Fail(500, "commit_failed", 1, outcome)
            ELSE
              LET new_rows == RecommendationsToSave(user_id, window_days,
                                 persona.persona_type, outcome.items, ms)
                  first == Len(recommendations)
              IN  /\ recommendations' = add_all(recommendations, new_rows)
                  /\ created_with' = created_with \o
                       [i \in DOMAIN new_rows |->
                          [feature |-> user_features[<<user_id, window_days>>].exists,
                           persona |-> persona # NoPersona,
                           consent |-> consent_status[user_id],
                           at      |-> now']]
                  /\ resp' = Respond("generate", 201, NULL, args,
                        [provider_calls |-> 1, provider |-> outcome,
                         persona |-> persona.persona_type,
                         recommendations |->
                            [k \in DOMAIN new_rows |->
                               [recommendation_id |-> first + k,
                                title    |-> new_rows[k].title,
                                content  |-> new_rows[k].content,
                                status   |-> new_rows[k].status,
                                metadata_json |-> new_rows[k].metadata_json]],
                         generation_time_ms |-> ms,
                         cached |-> FALSE])

\* ------------------------------------------------------- operator actions
\* mutant: every row is logged as an 'approve'
OperatorActionRowApprove(operator_id, action_type, recommendation_id, user_id, reason, ts) ==
  [operator_id |-> operator_id, action_type |-> "approve",
   recommendation_id |-> recommendation_id, user_id |-> user_id,
   reason |-> reason, timestamp |-> ts]

OperatorActionRow(operator_id, action_type, recommendation_id, user_id, reason, ts) ==
  [operator_id |-> operator_id, action_type |-> action_type,
   recommendation_id |-> recommendation_id, user_id |-> user_id,
   reason |-> reason, timestamp |-> ts]

\* commits of a single-recommendation handler: 0 = none raises,
\* 1 = the commit of the recommendation raises, 2 = the commit of the
\* OperatorAction raises
CommitFailures == {0, 1, 2}

\* mutant: the check for 'rejected' is missing
ApproveConflictOnlyApproved(status) == status = "approved"

\* statuses in which approve_recommendation raises 400
ApproveConflict(status) == status \in {"approved", "rejected"}

Approved(rec, operator_id, ts) ==
  [rec EXCEPT !.status = "approved", !.approved_by = operator_id,
              !.approved_at = ts]

approve_recommendation(recommendation_id, operator_id, notes) ==
  /\ Tick
  /\ UNCHANGED service_calls
  /\ UNCHANGED << users, consent_status, consent_log, user_features, personas,
                  created_with >>
  /\ LET args == [recommendation_id |-> recommendation_id,
                  operator_id |-> operator_id]
         Fail(code, detail) ==
           /\ resp' = Respond("approve", code, detail, args, NoBody)
           /\ UNCHANGED << recommendations, operator_actions >>
     IN
     IF recommendation_id \notin RecIds THEN Fail(404, "not_found")
     ELSE LET recommendation == recommendations[recommendation_id] IN
       IF ApproveConflict(recommendation.status)
         THEN Fail(400, IF recommendation.status = "approved"
                          THEN "already_approved" ELSE "rejected")
       ELSE \E fail \in CommitFailures :
         IF fail = 1 THEN Fail(500, "commit_failed")
         ELSE
         /\ recommendations' = [recommendations EXCEPT ![recommendation_id] =
                                  Approved(recommendation, operator_id, now')]
         /\ IF fail = 2
              THEN /\ UNCHANGED operator_actions
                   /\ resp' = Respond("approve", 500, "log_commit_failed", args, NoBody)
              ELSE /\ operator_actions' = Append(operator_actions,
                        OperatorActionRow(operator_id, "approve", recommendation_id,
                                          recommendation.user_id, notes, now'))
                   /\ resp' = Respond("approve", 200, NULL, args, NoBody)

Falsy(s) == s \in {NULL, ""}

CriticalWarnings(validation_warnings) ==
  SelectSeq(validation_warnings, LAMBDA w : w.severity = "critical")

\* mutant: any tone warning blocks, a notable one too
OverrideBlockedAnyWarning(new_content) == ~validate_tone(new_content).is_valid

\* new content on which override_recommendation raises 400
OverrideBlocked(new_content) ==
  LET tone_result == validate_tone(new_content) IN
  /\ ~tone_result.is_valid
  /\ CriticalWarnings(tone_result.validation_warnings) # <<>>

\* the row override_recommendation writes
Overridden(rec, new_title, new_content, reason, ts) ==
  [rec EXCEPT
     !.original_content = json_dumps([original_title   |-> rec.title,
                                      original_content |-> rec.content,
                                      overridden_at    |-> ts]),
     !.status = "overridden",
     !.override_reason = reason,
     !.title = IF Falsy(new_title) THEN rec.title ELSE new_title,
     !.content = IF new_content # NoText THEN append_disclosure(new_content)
                 ELSE IF ~Contains(rec.content, MANDATORY_DISCLOSURE)
                        THEN append_disclosure(rec.content)
                 ELSE rec.content]

override_recommendation(recommendation_id, operator_id, new_title, new_content, reason) ==
  /\ Tick
  /\ UNCHANGED service_calls
  /\ UNCHANGED << users, consent_status, consent_log, user_features, personas,
                  created_with >>
  /\ LET args == [recommendation_id |-> recommendation_id,
                  operator_id |-> operator_id, new_title |-> new_title,
                  new_content |-> new_content]
         Fail(code, detail) ==
           /\ resp' = Respond("override", code, detail, args, NoBody)
           /\ UNCHANGED << recommendations, operator_actions >>
     IN
     IF recommendation_id \notin RecIds THEN Fail(404, "not_found")
     ELSE IF Falsy(new_title) /\ new_content = NoText
       THEN Fail(400, "nothing_to_override")
     ELSE IF new_content # NoText /\ OverrideBlocked(new_content)
       THEN Fail(400, "tone_validation")
     ELSE \E fail \in CommitFailures :
       IF fail = 1 THEN Fail(500, "commit_failed")
       ELSE LET recommendation == recommendations[recommendation_id] IN
       /\ recommendations' = [recommendations EXCEPT ![recommendation_id] =
             Overridden(recommendation, new_title, new_content, reason, now')]
       /\ IF fail = 2
            THEN /\ UNCHANGED operator_actions
                 /\ resp' = Respond("override", 500, "log_commit_failed", args, NoBody)
            ELSE /\ operator_actions' = Append(operator_actions,
                      OperatorActionRow(operator_id, "override", recommendation_id,
                                        recommendation.user_id, reason, now'))
                 /\ resp' = Respond("override", 200, NULL, args, NoBody)

\* statuses in which reject_recommendation raises 400
RejectConflict(status) == status = "approved"

Rejected(rec, operator_id, reason, ts) ==
  LET metadata == IF rec.metadata_json # NoJson THEN json_loads(rec.metadata_json)
                                              ELSE EmptyDict
  IN [rec EXCEPT
        !.status = "rejected",
        !.metadata_json =
           json_dumps(DictSet(DictSet(DictSet(metadata,
              "rejection_reason", reason), "rejected_by", operator_id),
              "rejected_at", ts))]

reject_recommendation(recommendation_id, operator_id, reason) ==
  /\ Tick
  /\ UNCHANGED service_calls
  /\ UNCHANGED << users, consent_status, consent_log, user_features, personas,
                  created_with >>
  /\ LET args == [recommendation_id |-> recommendation_id,
                  operator_id |-> operator_id]
         Fail(code, detail) ==
           /\ resp' = Respond("reject", code, detail, args, NoBody)
           /\ UNCHANGED << recommendations, operator_actions >>
     IN
     IF recommendation_id \notin RecIds THEN Fail(404, "not_found")
     ELSE LET recommendation == recommendations[recommendation_id] IN
       IF RejectConflict(recommendation.status) THEN Fail(400, "already_approved")
       ELSE \E fail \in CommitFailures :
         IF fail = 1 THEN Fail(500, "commit_failed")
         ELSE
         /\ recommendations' = [recommendations EXCEPT ![recommendation_id] =
                                  Rejected(recommendation, operator_id, reason, now')]
         /\ IF fail = 2
              THEN /\ UNCHANGED operator_actions
                   /\ resp' = Respond("reject", 500, "log_commit_failed", args, NoBody)
              ELSE /\ operator_actions' = Append(operator_actions,
                        OperatorActionRow(operator_id, "reject", recommendation_id,
                                          recommendation.user_id, reason, now'))
                   /\ resp' = Respond("reject", 200, NULL, args, NoBody)

\* ------------------------------------------------------------ bulk approve
\* mutant: the status is read from the stored row, not from the session's
\* object, so a second listing of an id does not see the first approval
BulkStepStoredStatus(acc, recommendation_id, operator_id, ts) ==
  IF recommendation_id \notin DOMAIN acc.rows
    THEN [acc EXCEPT !.failed_count = @ + 1,
                     !.errors = Append(@, <<"not_found", recommendation_id>>)]
  ELSE IF recommendations[recommendation_id].status # "pending_approval"
    THEN [acc EXCEPT !.failed_count = @ + 1,
                     !.errors = Append(@, <<"not_pending", recommendation_id,
                                           acc.rows[recommendation_id].status>>)]
  ELSE [acc EXCEPT
          !.rows[recommendation_id] = Approved(@, operator_id, ts),
          !.operator_actions_to_create = Append(@,
              OperatorActionRow(operator_id, "approve", recommendation_id,
                                acc.rows[recommendation_id].user_id, NULL, ts)),
          !.approved_count = @ + 1]

\* One pass of the per-id loop over the session's view of the rows.
\* acc: rows as the session sees them, the OperatorAction objects to
\* create, the counters and the error strings.
BulkStep(acc, recommendation_id, operator_id, ts) ==
  IF recommendation_id \notin DOMAIN acc.rows
    THEN [acc EXCEPT !.failed_count = @ + 1,
                     !.errors = Append(@, <<"not_found", recommendation_id>>)]
  ELSE IF acc.rows[recommendation_id].status # "pending_approval"
    THEN [acc EXCEPT !.failed_count = @ + 1,
                     !.errors = Append(@, <<"not_pending", recommendation_id,
                                           acc.rows[recommendation_id].status>>)]
  ELSE [acc EXCEPT
          !.rows[recommendation_id] = Approved(@, operator_id, ts),
          !.operator_actions_to_create = Append(@,
              OperatorActionRow(operator_id, "approve", recommendation_id,
                                acc.rows[recommendation_id].user_id, NULL, ts)),
          !.approved_count = @ + 1]

RECURSIVE BulkLoop(_, _, _, _, _)
BulkLoop(acc, recommendation_ids, i, operator_id, ts) ==
  IF i > Len(recommendation_ids) THEN acc
  ELSE BulkLoop(BulkStep(acc, recommendation_ids[i], operator_id, ts),
                recommendation_ids, i + 1, operator_id, ts)

\* mutant: no rollback; the rows the loop changed stay changed
BulkCommitNoRollback(acc, fail) ==
  IF fail THEN [rows |-> acc.rows, log |-> operator_actions]
          ELSE [rows |-> acc.rows,
                log  |-> operator_actions \o acc.operator_actions_to_create]

\* the store after the batch commit: everything the loop prepared, or,
\* when the commit raises, what was stored before (rollback)
BulkCommit(acc, fail) ==
  IF fail THEN [rows |-> recommendations, log |-> operator_actions]
          ELSE [rows |-> acc.rows,
                log  |-> operator_actions \o acc.operator_actions_to_create]

bulk_approve_recommendations(operator_id, recommendation_ids) ==
  /\ Tick
  /\ UNCHANGED service_calls
  /\ UNCHANGED << users, consent_status, consent_log, user_features, personas,
                  created_with >>
  /\ LET args == [operator_id |-> operator_id,
                  recommendation_ids |-> recommendation_ids]
         acc == BulkLoop([rows |-> recommendations,
                          operator_actions_to_create |-> <<>>,
                          approved_count |-> 0, failed_count |-> 0,
                          errors |-> <<>>],
                         recommendation_ids, 1, operator_id, now')
         body == [provider_calls |-> 0, provider |-> NoCall,
                  approved |-> acc.approved_count,
                  failed |-> acc.failed_count, errors |-> acc.errors]
     IN
     \E fail \in IF acc.operator_actions_to_create # <<>> THEN BOOLEAN ELSE {FALSE} :
       /\ recommendations' = BulkCommit(acc, fail).rows
       /\ operator_actions' = BulkCommit(acc, fail).log
       /\ resp' = IF fail
           THEN Respond("bulk_approve", 500, "commit_failed", args, body)
           ELSE Respond("bulk_approve",
                        IF acc.approved_count = 0 THEN 400 ELSE 200,
                        IF acc.approved_count = 0 THEN "all_failed" ELSE NULL,
                        args, body)

\* ------------------------------------------------------------------- spec
\* bodies of an override request: nothing, a title, content with a
\* notable warning only, content with a critical warning
OverrideBodies ==
  { [new_title |-> NULL,        new_content |-> NoText],
    [new_title |-> "New title", new_content |-> NoText],
    [new_title |-> NULL,        new_content |-> <<"Save">>],
    [new_title |-> "New title", new_content |-> <<"You Need To", "Save", ".">>] }

ConsentInputs  == \E u \in UserIds, a \in {"grant", "revoke"} : update_consent(u, a)
FeaturesInputs == \E u \in UserIds, w \in Windows : compute_features(u, w)
PersonaInputs  == \E u \in UserIds, w \in Windows : assign_and_save_persona(u, w)
GenerateInputs == \E u \in UserIds, w \in Windows, force \in BOOLEAN :
                     generate_recommendations(u, w, force)
ApproveInputs  == \E id \in IdInputs, op \in Operators :
                     approve_recommendation(id, op, "notes")
OverrideInputs == \E id \in IdInputs, op \in Operators, b \in OverrideBodies :
                     override_recommendation(id, op, b.new_title, b.new_content,
                                             "reason")
RejectInputs   == \E id \in IdInputs, op \in Operators :
                     reject_recommendation(id, op, "reason")
BulkApproveInputs == \E op \in Operators, ids \in SeqsUpTo(IdInputs, MaxIds) :
                     bulk_approve_recommendations(op, ids)

ConsentRequest     == now < MaxRequests /\ ConsentInputs
FeaturesRequest    == now < MaxRequests /\ FeaturesInputs
PersonaRequest     == now < MaxRequests /\ PersonaInputs
GenerateRequest    == now < MaxRequests /\ GenerateInputs
ApproveRequest     == now < MaxRequests /\ ApproveInputs
OverrideRequest    == now < MaxRequests /\ OverrideInputs
RejectRequest      == now < MaxRequests /\ RejectInputs
BulkApproveRequest == now < MaxRequests /\ BulkApproveInputs

Next ==
  \/ ConsentRequest
  \/ FeaturesRequest
  \/ PersonaRequest
  \/ GenerateRequest
  \/ ApproveRequest
  \/ OverrideRequest
  \/ RejectRequest
  \/ BulkApproveRequest

Spec == Init /\ [][Next]_vars

\* The operator review workflow on its own: the store as it is after user
\* u1 granted consent, got a persona for the 30-day window without a
\* feature snapshot, and one generation persisted both provider items.
ReviewItems ==
  LET first == CHOOSE it \in ProviderItems : it.metadata.is_dict
  IN  << first, CHOOSE it \in ProviderItems : it # first >>

Seeded(items) ==
  /\ users = {"u1"}
  /\ consent_status = [u \in UserIds |-> u = "u1"]
  /\ consent_log = <<[user_id |-> "u1", action |-> "granted", timestamp |-> 0]>>
  /\ user_features = [k \in Keys |-> NoFeature]
  /\ personas = [k \in Keys |-> IF k = <<"u1", 30>>
                                  THEN assign_persona(CHOOSE l \in AccountLookups : TRUE,
                                                      NoFeature)
                                  ELSE NoPersona]
  /\ recommendations = RecommendationsToSave("u1", 30, "savings_builder",
                                             items, 1200)
  /\ operator_actions = <<>>
  /\ created_with = [i \in DOMAIN items |->
                       [feature |-> FALSE, persona |-> TRUE, consent |-> TRUE,
                        at |-> 0]]
  /\ now = 0
  /\ resp = Respond("init", 0, NULL, [user_id |-> NULL], NoBody)
  /\ service_calls = [w \in Workers |-> Idle]

InitReview == Seeded(ReviewItems)

ReviewApprove     == now < MaxReviews /\ ApproveInputs
ReviewOverride    == now < MaxReviews /\ OverrideInputs
ReviewReject      == now < MaxReviews /\ RejectInputs
ReviewBulkApprove == now < MaxReviews /\ BulkApproveInputs

NextReview ==
  \/ ReviewApprove
  \/ ReviewOverride
  \/ ReviewReject
  \/ ReviewBulkApprove

SpecReview == InitReview /\ [][NextReview]_vars

\* Regeneration against a store that already holds a recommendation: the
\* same store with only the first provider item persisted, so that one more
\* row can still be created.
InitRegen == Seeded(<<ReviewItems[1]>>)

RegenConsent  == now < MaxRegens /\ ConsentInputs
RegenGenerate == now < MaxRegens /\ GenerateInputs
RegenApprove  == now < MaxRegens /\ ApproveInputs
RegenOverride == now < MaxRegens /\ OverrideInputs

NextRegen ==
  \/ RegenConsent
  \/ RegenGenerate
  \/ RegenApprove
  \/ RegenOverride

SpecRegen == InitRegen /\ [][NextRegen]_vars

\* Generation and overrides whose new content is blank, carries the
\* disclosure already, or carries it in the middle.
DisclosureBodies ==
  OverrideBodies \cup
  { [new_title |-> NULL, new_content |-> <<" ">>],
    [new_title |-> NULL,
     new_content |-> <<"Save", ".", "\n\n", MANDATORY_DISCLOSURE>>],
    [new_title |-> NULL, new_content |-> <<MANDATORY_DISCLOSURE, "Consider">>] }

InitDisclosure == Seeded(<<ReviewItems[1]>>)

DisclosureGenerate ==
  /\ now < MaxEdits
  /\ \E w \in Windows, force \in BOOLEAN : generate_recommendations("u1", w, force)

DisclosureOverride ==
  /\ now < MaxEdits
  /\ \E id \in IdInputs, op \in Operators, b \in DisclosureBodies :
        override_recommendation(id, op, b.new_title, b.new_content, "reason")

NextDisclosure ==
  \/ DisclosureGenerate
  \/ DisclosureOverride

SpecDisclosure == InitDisclosure /\ [][NextDisclosure]_vars

\* ----------------------------------------------------- concurrent upserts
\* compute_all_features and assign_and_save_persona called by workers that
\* each have their own session.  A call reads (SELECT, no transaction is
\* held open by it) and later flushes and commits; the commits of
\* different sessions are serialised by the database, the reads are not.
StoreVars == << users, consent_status, consent_log, recommendations,
                operator_actions, created_with, resp >>

CallOver(w) == service_calls[w].pc \in {"idle", "done", "error"}

\* The UPDATE the session flushes for a row it loaded: it sets the
\* attributes whose new value differs from the loaded one and leaves the
\* other columns of the stored row alone.
FlushUpdate(stored, loaded, values) ==
  [key \in DOMAIN stored |->
     IF key \in DOMAIN values /\ values[key] # loaded[key]
       THEN values[key] ELSE stored[key]]

\* compute_all_features up to and including the query for the existing row
BeginFeatures(w, key, all_features) ==
  /\ CallOver(w)
  /\ key[1] \in users
  /\ now' = now + 1
  /\ service_calls' = [service_calls EXCEPT ![w] =
       [pc |-> "queried", kind |-> "features", key |-> key,
        existing |-> user_features[key], values |-> all_features]]
  /\ UNCHANGED << StoreVars, user_features, personas >>

\* the rest of compute_all_features: set or add, then db.commit().  The
\* INSERT of a key that another session inserted meanwhile violates
\* uq_user_features_user_window and the call raises.
CommitFeatures(w) ==
  /\ service_calls[w].pc = "queried"
  /\ service_calls[w].kind = "features"
  /\ LET call == service_calls[w]
         stored == user_features[call.key]
     IN  IF call.existing.exists
           THEN /\ user_features' = [user_features EXCEPT ![call.key] =
                      FlushUpdate(stored, call.existing, call.values)]
                /\ service_calls' = [service_calls EXCEPT ![w].pc = "done"]
         ELSE IF stored.exists
           THEN /\ UNCHANGED user_features
                /\ service_calls' = [service_calls EXCEPT ![w].pc = "error"]
         ELSE /\ user_features' = [user_features EXCEPT ![call.key] = call.values]
              /\ service_calls' = [service_calls EXCEPT ![w].pc = "done"]
  /\ UNCHANGED << StoreVars, personas, now >>

\* assign_and_save_persona up to the return of assign_persona
BeginPersona(w, key, lookup) ==
  /\ CallOver(w)
  /\ key[1] \in users
  /\ now' = now + 1
  /\ service_calls' = [service_calls EXCEPT ![w] =
       [pc |-> "assigned", kind |-> "persona", key |-> key,
        existing |-> NoPersona,
        values |-> assign_persona(lookup, user_features[key])]]
  /\ UNCHANGED << StoreVars, user_features, personas >>

\* create_or_update_persona: the query for the existing row
QueryPersona(w) ==
  /\ service_calls[w].pc = "assigned"
  /\ service_calls' = [service_calls EXCEPT
        ![w].pc = "queried", ![w].existing = personas[service_calls[w].key]]
  /\ UNCHANGED << StoreVars, user_features, personas, now >>

\* create_or_update_persona: update or add, then db.commit()
CommitPersona(w) ==
  /\ service_calls[w].pc = "queried"
  /\ service_calls[w].kind = "persona"
  /\ LET call == service_calls[w]
         stored == personas[call.key]
     IN  IF call.existing # NoPersona
           THEN /\ personas' = [personas EXCEPT ![call.key] =
                      FlushUpdate(stored, call.existing, call.values)]
                /\ service_calls' = [service_calls EXCEPT ![w].pc = "done"]
         ELSE IF stored # NoPersona
           THEN /\ UNCHANGED personas
                /\ service_calls' = [service_calls EXCEPT ![w].pc = "error"]
         ELSE /\ personas' = [personas EXCEPT ![call.key] = call.values]
              /\ service_calls' = [service_calls EXCEPT ![w].pc = "done"]
  /\ UNCHANGED << StoreVars, user_features, now >>

UpsertBeginFeatures ==
  /\ now < MaxCalls
  /\ \E w \in Workers, key \in Keys, all_features \in FeatureSnapshots :
        BeginFeatures(w, key, all_features)
UpsertCommitFeatures == \E w \in Workers : CommitFeatures(w)
UpsertBeginPersona ==
  /\ now < MaxCalls
  /\ \E w \in Workers, key \in Keys, lookup \in AccountLookups :
        BeginPersona(w, key, lookup)
UpsertQueryPersona  == \E w \in Workers : QueryPersona(w)
UpsertCommitPersona == \E w \in Workers : CommitPersona(w)

NextUpsert ==
  \/ UpsertBeginFeatures
  \/ UpsertCommitFeatures
  \/ UpsertBeginPersona
  \/ UpsertQueryPersona
  \/ UpsertCommitPersona

SpecUpsert == Init /\ [][NextUpsert]_vars

\* ------------------------------------------- concurrent approve and reject
\* approve_recommendation and reject_recommendation served by workers that
\* each have their own session.  A request queries the row and checks its
\* status, later commits its changes of the row (an UPDATE of the changed
\* columns by primary key, or an error), and later commits its
\* OperatorAction.
RaceVars == << users, consent_status, consent_log, user_features, personas,
               created_with, resp >>

\* the query, the 404 and the status check of either handler
BeginReview(w, kind, recommendation_id, operator_id) ==
  /\ CallOver(w)
  /\ now' = now + 1
  /\ service_calls' = [service_calls EXCEPT ![w] =
       IF recommendation_id \notin RecIds
         THEN [pc |-> "error", kind |-> kind, code |-> 404,
               recommendation_id |-> recommendation_id]
       ELSE IF \/ kind = "approve" /\ ApproveConflict(recommendations[recommendation_id].status)
               \/ kind = "reject" /\ RejectConflict(recommendations[recommendation_id].status)
         THEN [pc |-> "error", kind |-> kind, code |-> 400,
               recommendation_id |-> recommendation_id]
       ELSE [pc |-> "checked", kind |-> kind, code |-> 0,
             recommendation_id |-> recommendation_id,
             operator_id |-> operator_id,
             existing |-> recommendations[recommendation_id],
             values |-> IF kind = "approve"
                          THEN Approved(recommendations[recommendation_id],
                                        operator_id, now')
                          ELSE Rejected(recommendations[recommendation_id],
                                        operator_id, "reason", now')]]
  /\ UNCHANGED << RaceVars, recommendations, operator_actions >>

\* the first db.commit() of the handler
CommitReview(w) ==
  /\ service_calls[w].pc = "checked"
  /\ LET call == service_calls[w] IN
     \E fail \in BOOLEAN :
       IF fail
         THEN /\ service_calls' = [service_calls EXCEPT ![w].pc = "error",
                                                        ![w].code = 500]
              /\ UNCHANGED recommendations
         ELSE /\ recommendations' =
                   [recommendations EXCEPT ![call.recommendation_id] =
                      FlushUpdate(@, call.existing, call.values)]
              /\ service_calls' = [service_calls EXCEPT ![w].pc = "committed"]
  /\ UNCHANGED << RaceVars, operator_actions, now >>

\* the OperatorAction, its db.commit() and the response
LogReview(w) ==
  /\ service_calls[w].pc = "committed"
  /\ LET call == service_calls[w] IN
     \E fail \in BOOLEAN :
       IF fail
         THEN /\ service_calls' = [service_calls EXCEPT ![w].pc = "error",
                                                        ![w].code = 500]
              /\ UNCHANGED operator_actions
         ELSE /\ operator_actions' = Append(operator_actions,
                   OperatorActionRow(call.operator_id, call.kind,
                       call.recommendation_id, call.existing.user_id,
                       IF call.kind = "approve" THEN "notes" ELSE "reason", now))
              /\ service_calls' = [service_calls EXCEPT ![w].pc = "done",
                                                        ![w].code = 200]
  /\ UNCHANGED << RaceVars, recommendations, now >>

RaceBeginApprove ==
  /\ now < MaxCalls
  /\ \E w \in Workers, id \in IdInputs, op \in Operators :
        BeginReview(w, "approve", id, op)
RaceBeginReject ==
  /\ now < MaxCalls
  /\ \E w \in Workers, id \in IdInputs, op \in Operators :
        BeginReview(w, "reject", id, op)
RaceCommit == \E w \in Workers : CommitReview(w)
RaceLog    == \E w \in Workers : LogReview(w)

NextRace ==
  \/ RaceBeginApprove
  \/ RaceBeginReject
  \/ RaceCommit
  \/ RaceLog

SpecRace == InitReview /\ [][NextRace]_vars

\* ------------------------------------- consent revoked during generation
\* generate_recommendations served by a worker while consent requests are
\* served by another: the request runs up to the call of the generative
\* provider, and runs from the provider's return to the commit later.
GenerationVars == << users, user_features, personas, operator_actions, resp >>

\* the checks of generate_recommendations, up to the provider call
BeginGenerate(w, user_id, window_days, force_regenerate) ==
  /\ CallOver(w)
  /\ now' = now + 1
  /\ LET persona == personas[<<user_id, window_days>>]
         code == IF user_id \notin users THEN 404
                 ELSE IF ~check_consent(user_id) THEN 403
                 ELSE IF CacheHit(ExistingPending(user_id, window_days),
                                  force_regenerate) THEN 200
                 ELSE IF PersonaMissing(persona) THEN 400
                 ELSE IF ~validate_context(build_user_context(user_id, window_days))
                   THEN 400
                 ELSE 0
     IN  service_calls' = [service_calls EXCEPT ![w] =
           [pc |-> IF code = 0 THEN "calling"
                   ELSE IF code = 200 THEN "done" ELSE "error",
            kind |-> "generate", code |-> code,
            user_id |-> user_id, window_days |-> window_days,
            persona_type |-> persona.persona_type]]
  /\ UNCHANGED << GenerationVars, consent_status, consent_log, recommendations,
                  created_with >>

\* the provider's return, tone validation, db.add_all and db.commit()
FinishGenerate(w) ==
  /\ service_calls[w].pc = "calling"
  /\ LET call == service_calls[w] IN
     \E outcome \in ProviderOutcomes :
       /\ Len(recommendations) + Len(outcome.items) <= MaxRecs
       /\ IF GenerationError(outcome) # NULL
            THEN /\ service_calls' = [service_calls EXCEPT ![w].pc = "error",
                                                           ![w].code = 500]
                 /\ UNCHANGED << recommendations, created_with >>
          ELSE \E ms \in GenTimes, fail \in BOOLEAN :
            IF fail
              THEN /\ service_calls' = [service_calls EXCEPT ![w].pc = "error",
                                                             ![w].code = 500]
                   /\ UNCHANGED << recommendations, created_with >>
              ELSE LET new_rows == RecommendationsToSave(call.user_id,
                                      call.window_days, call.persona_type,
                                      outcome.items, ms)
                   IN  /\ recommendations' = add_all(recommendations, new_rows)
                       /\ created_with' = created_with \o
                            [i \in DOMAIN new_rows |->
                               [feature |-> user_features[<<call.user_id,
                                               call.window_days>>].exists,
                                persona |-> TRUE,
                                consent |-> consent_status[call.user_id],
                                at      |-> now]]
                       /\ service_calls' = [service_calls EXCEPT ![w].pc = "done",
                                                                 ![w].code = 201]
  /\ UNCHANGED << GenerationVars, consent_status, consent_log, now >>

LatentBeginGenerate ==
  /\ now < MaxCalls
  /\ \E w \in Workers, u \in UserIds, force \in BOOLEAN :
        BeginGenerate(w, u, 30, force)
LatentFinishGenerate == \E w \in Workers : FinishGenerate(w)
LatentConsent ==
  /\ now < MaxCalls
  /\ \E u \in UserIds, a \in {"grant", "revoke"} : update_consent(u, a)

NextLatent ==
  \/ LatentBeginGenerate
  \/ LatentFinishGenerate
  \/ LatentConsent

SpecLatent == InitRegen /\ [][NextLatent]_vars

\* ----------------------------------------------------- product eligibility
\* Amounts are whole dollars and utilizations whole percents (1.0 is 100).
Truthy(number) == number # NoNumber /\ number # 0

OrZero(number) == IF Truthy(number) THEN number ELSE 0

savings_types == {"savings", "money market", "cash management", "HSA"}

\* mutant: an income equal to the minimum is excluded as well
IncomeBelowMinimumOrEqual(product, features) ==
  /\ Truthy(product.min_income)
  /\ product.min_income > 0
  /\ OrZero(features.avg_monthly_income) <= product.min_income

IncomeBelowMinimum(product, features) ==
  /\ Truthy(product.min_income)
  /\ product.min_income > 0
  /\ OrZero(features.avg_monthly_income) < product.min_income

\* user_feature is the user's 30-day row, NoFeature when there is none
check_credit_eligibility(user_feature, max_utilization) ==
  IF ~user_feature.exists
    THEN FALSE
    ELSE OrZero(user_feature.max_utilization) <= max_utilization

\* accounts is the set of types of the user's accounts
check_product_eligibility(accounts, product, features) ==
  IF IncomeBelowMinimum(product, features)
    THEN <<FALSE, "Income below minimum requirement">>
  ELSE IF /\ Truthy(product.max_credit_utilization)
          /\ product.max_credit_utilization < 100
          /\ OrZero(features.avg_utilization) > product.max_credit_utilization
    THEN <<FALSE, "Credit utilization too high">>
  ELSE IF /\ product.requires_no_existing_savings
          /\ accounts \cap savings_types # {}
    THEN <<FALSE, "Already has savings account">>
  ELSE IF /\ product.requires_no_existing_investment
          /\ "investment" \in accounts
    THEN <<FALSE, "Already has investment account">>
  ELSE IF /\ product.category = "balance_transfer"
          /\ OrZero(features.avg_utilization) < 30
    THEN <<FALSE, "Balance transfer not beneficial at current utilization">>
  ELSE <<TRUE, "Eligible">>

ProductOffers ==
  [min_income : {NoNumber, 0, 5000},
   max_credit_utilization : {NoNumber, 50},
   requires_no_existing_savings : BOOLEAN,
   requires_no_existing_investment : BOOLEAN,
   category : {"balance_transfer", "savings_account"}]

\* the average utilization over the cards is never above the largest one
FeatureRows ==
  {features \in [avg_monthly_income : {NoNumber, 3000, 5000, 6000},
                 avg_utilization : {NoNumber, 20, 60},
                 max_utilization : {NoNumber, 20, 60}] :
      OrZero(features.avg_utilization) <= OrZero(features.max_utilization)}

AccountTypes == SUBSET {"savings", "investment"}

\* a product and a user's 30-day features waiting to be checked
InitEligibility ==
  /\ users = {"u1"}
  /\ consent_status = [u \in UserIds |-> FALSE]
  /\ consent_log = <<>>
  /\ user_features = [k \in Keys |-> NoFeature]
  /\ personas = [k \in Keys |-> NoPersona]
  /\ recommendations = <<>>
  /\ operator_actions = <<>>
  /\ created_with = <<>>
  /\ now = 0
  /\ \E accounts \in AccountTypes, product \in ProductOffers, features \in FeatureRows :
        resp = Respond("product", 0, NULL,
                       [user_id |-> "u1", accounts |-> accounts,
                        product |-> product, features |-> features], NoBody)
  /\ service_calls = [w \in Workers |-> Idle]

CheckEligibility ==
  /\ resp.op = "product"
  /\ now' = now + 1
  /\ resp' = Respond("eligibility", 0, NULL, resp.args,
                     [provider_calls |-> 0, provider |-> NoCall,
                      result |-> check_product_eligibility(resp.args.accounts,
                                     resp.args.product, resp.args.features)])
  /\ UNCHANGED << users, consent_status, consent_log, user_features, personas,
                  recommendations, operator_actions, created_with, service_calls >>

NextEligibility == CheckEligibility

SpecEligibility == InitEligibility /\ [][NextEligibility]_vars

\* ------------------------------------------------------ recurring pattern
\* A date is its day number.
Abs(n) == IF n < 0 THEN -n ELSE n

Gaps(dates) == [i \in 1..(Len(dates) - 1) |-> dates[i + 1] - dates[i]]

common_intervals == <<7, 30, 90>>

MatchingGaps(gaps, interval, tolerance_days) ==
  SelectSeq(gaps, LAMBDA g : Abs(g - interval) <= tolerance_days)

\* len(matching_gaps) >= len(gaps) * 0.6, in tenths
is_recurring_pattern(dates, tolerance_days) ==
  IF Len(dates) < 3 THEN FALSE
  ELSE \E k \in DOMAIN common_intervals :
          Len(MatchingGaps(Gaps(dates), common_intervals[k], tolerance_days)) * 10
            >= Len(Gaps(dates)) * 6

GapValues == {0, 2, 3, 5, 12, 13, 24, 25, 29, 30, 31, 35, 36, 60, 84, 85, 95, 96}

RECURSIVE DatesFrom(_, _)
DatesFrom(first, gaps) ==
  IF gaps = <<>> THEN <<first>>
  ELSE <<first>> \o DatesFrom(first + Head(gaps), Tail(gaps))

\* chronologically sorted lists of up to MaxDates dates
SortedDates ==
  {<<>>} \cup {DatesFrom(1, gaps) : gaps \in SeqsUpTo(GapValues, MaxDates - 1)}

\* a merchant's transaction dates waiting to be classified
InitRecurring ==
  /\ users = {"u1"}
  /\ consent_status = [u \in UserIds |-> FALSE]
  /\ consent_log = <<>>
  /\ user_features = [k \in Keys |-> NoFeature]
  /\ personas = [k \in Keys |-> NoPersona]
  /\ recommendations = <<>>
  /\ operator_actions = <<>>
  /\ created_with = <<>>
  /\ now = 0
  /\ \E dates \in SortedDates :
        resp = Respond("dates", 0, NULL, [user_id |-> "u1", dates |-> dates], NoBody)
  /\ service_calls = [w \in Workers |-> Idle]

IsRecurringPattern ==
  /\ resp.op = "dates"
  /\ now' = now + 1
  /\ resp' = Respond("is_recurring_pattern", 0, NULL, resp.args,
                     [provider_calls |-> 0, provider |-> NoCall,
                      recurring |-> is_recurring_pattern(resp.args.dates, 5)])
  /\ UNCHANGED << users, consent_status, consent_log, user_features, personas,
                  recommendations, operator_actions, created_with, service_calls >>

NextRecurring == IsRecurringPattern

SpecRecurring == InitRecurring /\ [][NextRecurring]_vars

\* ---------------------------------------------------------- credit signals
\* Balances and limits are whole dollars; a utilization is balance / limit
\* in whole percents, rounded down, which keeps every comparison with a
\* whole-percent threshold.
NoLiability == [exists |-> FALSE]

Utilization(account) == (OrZero(account.balance_current) * 100) \div account.balance_limit

\* the utilizations list: one entry per card with a positive limit
RECURSIVE Utilizations(_)
Utilizations(credit_card_accounts) ==
  IF credit_card_accounts = <<>> THEN <<>>
  ELSE (IF OrZero(Head(credit_card_accounts).balance_limit) > 0
          THEN <<Utilization(Head(credit_card_accounts))>> ELSE <<>>)
       \o Utilizations(Tail(credit_card_accounts))

\* max_utilization starts at 0.0 and is raised by every larger utilization
RECURSIVE MaxUtilization(_)
MaxUtilization(utilizations) ==
  IF utilizations = <<>> THEN 0
  ELSE LET rest == MaxUtilization(Tail(utilizations))
       IN  IF Head(utilizations) > rest THEN Head(utilizations) ELSE rest

RECURSIVE SumSeq(_)
SumSeq(numbers) ==
  IF numbers = <<>> THEN 0 ELSE Head(numbers) + SumSeq(Tail(numbers))

\* mutant: a utilization equal to the threshold does not set the flag
UtilizationFlagStrict(utilizations, threshold) ==
  \E k \in DOMAIN utilizations : utilizations[k] > threshold

UtilizationFlag(utilizations, threshold) ==
  \E k \in DOMAIN utilizations : utilizations[k] >= threshold

\* last_payment <= minimum_payment + 5.0 on some card with a liability
MinimumPaymentOnly(credit_card_accounts) ==
  \E k \in DOMAIN credit_card_accounts :
     LET liability == credit_card_accounts[k].liability IN
     /\ liability.exists
     /\ liability.minimum_payment_amount # NoNumber
     /\ liability.last_payment_amount # NoNumber
     /\ liability.last_payment_amount <= liability.minimum_payment_amount + 5

\* interest_transactions is the number of interest transactions of the
\* cards in the window
compute_credit_signals(credit_card_accounts, interest_transactions) ==
  IF credit_card_accounts = <<>>
    THEN [avg_utilization |-> 0, max_utilization |-> 0,
          utilization_30_flag |-> FALSE, utilization_50_flag |-> FALSE,
          utilization_80_flag |-> FALSE, minimum_payment_only_flag |-> FALSE,
          interest_charges_present |-> FALSE, any_overdue |-> FALSE]
    ELSE LET utilizations == Utilizations(credit_card_accounts) IN
         [avg_utilization |-> IF utilizations = <<>> THEN 0
                              ELSE SumSeq(utilizations) \div Len(utilizations),
          max_utilization |-> MaxUtilization(utilizations),
          utilization_30_flag |-> UtilizationFlag(utilizations, 30),
          utilization_50_flag |-> UtilizationFlag(utilizations, 50),
          utilization_80_flag |-> UtilizationFlag(utilizations, 80),
          minimum_payment_only_flag |-> MinimumPaymentOnly(credit_card_accounts),
          interest_charges_present |-> interest_transactions > 0,
          any_overdue |-> \E k \in DOMAIN credit_card_accounts :
                             /\ credit_card_accounts[k].liability.exists
                             /\ credit_card_accounts[k].liability.is_overdue]

CreditCards ==
  [balance_current : {NoNumber, -100, 299, 300, 500, 600, 800},
   balance_limit : {NoNumber, 0, 1000},
   liability : {NoLiability,
                [exists |-> TRUE, minimum_payment_amount |-> 25,
                 last_payment_amount |-> 30, is_overdue |-> TRUE]}]

\* the user's credit cards waiting for the signals to be computed
InitCredit ==
  /\ users = {"u1"}
  /\ consent_status = [u \in UserIds |-> FALSE]
  /\ consent_log = <<>>
  /\ user_features = [k \in Keys |-> NoFeature]
  /\ personas = [k \in Keys |-> NoPersona]
  /\ recommendations = <<>>
  /\ operator_actions = <<>>
  /\ created_with = <<>>
  /\ now = 0
  /\ \E credit_card_accounts \in SeqsUpTo(CreditCards, MaxCards), interest_transactions \in {0, 1} :
        resp = Respond("cards", 0, NULL,
                       [user_id |-> "u1",
                        credit_card_accounts |-> credit_card_accounts,
                        interest_transactions |-> interest_transactions], NoBody)
  /\ service_calls = [w \in Workers |-> Idle]

ComputeCreditSignals ==
  /\ resp.op = "cards"
  /\ now' = now + 1
  /\ resp' = Respond("credit_signals", 0, NULL, resp.args,
                     [provider_calls |-> 0, provider |-> NoCall,
                      signals |-> compute_credit_signals(
                                     resp.args.credit_card_accounts,
                                     resp.args.interest_transactions)])
  /\ UNCHANGED << users, consent_status, consent_log, user_features, personas,
                  recommendations, operator_actions, created_with, service_calls >>

NextCredit == ComputeCreditSignals

SpecCredit == InitCredit /\ [][NextCredit]_vars

\* ---------------------------------------------------------- income signals
\* A date is its day number; amounts and balances are whole dollars.
Today == 200          \* date.today()

Upper(s) == IF s = "ach" THEN "ACH" ELSE s

\* 'PAYROLL' in name.upper() or 'SALARY' in name.upper()
HasPayrollKeyword(name) == name \in {"Acme Payroll", "SALARY INC"}

InsertByDate(sorted, txn) ==
  LET after == {k \in DOMAIN sorted : sorted[k].date > txn.date}
      at    == IF after = {} THEN Len(sorted) + 1
               ELSE CHOOSE k \in after : \A j \in after : k <= j
  IN  SubSeq(sorted, 1, at - 1) \o <<txn>> \o SubSeq(sorted, at, Len(sorted))

\* stable sort by date, ascending
RECURSIVE SortByDate(_)
SortByDate(txns) ==
  IF txns = <<>> THEN <<>>
  ELSE InsertByDate(SortByDate(SubSeq(txns, 1, Len(txns) - 1)), txns[Len(txns)])

\* the user's transactions dated on or after the cutoff, by date
get_transactions_in_window(transactions, window_days) ==
  SortByDate(SelectSeq(transactions, LAMBDA txn : txn.date >= Today - window_days))

IsPayroll(txn) ==
  /\ txn.amount > 0
  /\ \/ txn.payment_channel # NULL /\ Upper(txn.payment_channel) = "ACH"
     \/ txn.category_primary \in {"income", "payroll", "salary"}
     \/ txn.merchant_name # NULL /\ HasPayrollKeyword(txn.merchant_name)

InsertNumber(sorted, n) ==
  LET after == {k \in DOMAIN sorted : sorted[k] > n}
      at    == IF after = {} THEN Len(sorted) + 1
               ELSE CHOOSE k \in after : \A j \in after : k <= j
  IN  SubSeq(sorted, 1, at - 1) \o <<n>> \o SubSeq(sorted, at, Len(sorted))

RECURSIVE SortNumbers(_)
SortNumbers(numbers) ==
  IF numbers = <<>> THEN <<>>
  ELSE InsertNumber(SortNumbers(Tail(numbers)), Head(numbers))

\* int(statistics.median(gaps)) for gaps that are not negative
MedianInt(gaps) ==
  LET data == SortNumbers(gaps)
      n    == Len(data)
  IN  IF n % 2 = 1 THEN data[(n + 1) \div 2]
      ELSE (data[n \div 2] + data[n \div 2 + 1]) \div 2

\* total of the expenses on the checking accounts since the cutoff
TotalExpenses(transactions, checking_accounts, window_days) ==
  LET ids == {checking_accounts[k].account_id : k \in DOMAIN checking_accounts}
      expense_transactions ==
        SelectSeq(transactions, LAMBDA txn : /\ txn.account_id \in ids
                                             /\ txn.date >= Today - window_days
                                             /\ txn.amount < 0)
  IN  SumSeq([k \in DOMAIN expense_transactions |-> -expense_transactions[k].amount])

\* checking balance / (expenses / (window_days / 30)), in tenths of a month
CashFlowBuffer(transactions, checking_accounts, window_days) ==
  LET current_checking_balance ==
        SumSeq([k \in DOMAIN checking_accounts |-> OrZero(checking_accounts[k].balance_current)])
      total_expenses == TotalExpenses(transactions, checking_accounts, window_days)
  IN  IF total_expenses > 0
        THEN (current_checking_balance * window_days * 10) \div (total_expenses * 30)
      ELSE 0

\* The signals the persona checks read: median_pay_gap_days is <<>> (None)
\* or <<days>>, avg_monthly_income is in whole dollars.
compute_income_signals(transactions, checking_accounts, window_days) ==
  LET payroll_transactions ==
        SortByDate(SelectSeq(get_transactions_in_window(transactions, window_days),
                             IsPayroll))
      dates == [k \in DOMAIN payroll_transactions |-> payroll_transactions[k].date]
      payroll_amounts ==
        [k \in DOMAIN payroll_transactions |-> payroll_transactions[k].amount]
  IN  IF Len(payroll_transactions) < 2
        THEN [payroll_detected |-> FALSE, median_pay_gap_days |-> <<>>,
              cash_flow_buffer_months |-> 0, avg_monthly_income |-> 0]
      ELSE [payroll_detected |-> TRUE,
            median_pay_gap_days |-> <<MedianInt(Gaps(dates))>>,
            cash_flow_buffer_months |->
              CashFlowBuffer(transactions, checking_accounts, window_days),
            avg_monthly_income |-> (SumSeq(payroll_amounts) * 30) \div window_days]

\* rows that POST /ingest stores: the date is any date the payload gives
TransactionDates == {Today - 100, Today - 20, Today, Today + 40}

TransactionKinds ==
  { [amount |-> 100, payment_channel |-> "ach", category_primary |-> NULL,
     merchant_name |-> NULL],
    [amount |-> 100, payment_channel |-> "online", category_primary |-> NULL,
     merchant_name |-> "Acme Payroll"],
    [amount |-> 100, payment_channel |-> "online", category_primary |-> NULL,
     merchant_name |-> "Coffee"],
    [amount |-> -100, payment_channel |-> "ach", category_primary |-> NULL,
     merchant_name |-> NULL] }

TransactionRows ==
  { [account_id |-> "a1", date |-> d, amount |-> kind.amount,
     payment_channel |-> kind.payment_channel,
     category_primary |-> kind.category_primary,
     merchant_name |-> kind.merchant_name] :
       d \in TransactionDates, kind \in TransactionKinds }

CheckingAccounts == {<<>>, <<[account_id |-> "a1", balance_current |-> 50]>>}

WindowDays == {30, 180}

\* the user's transactions and checking accounts waiting for the signals
InitIncome ==
  /\ users = {"u1"}
  /\ consent_status = [u \in UserIds |-> FALSE]
  /\ consent_log = <<>>
  /\ user_features = [k \in Keys |-> NoFeature]
  /\ personas = [k \in Keys |-> NoPersona]
  /\ recommendations = <<>>
  /\ operator_actions = <<>>
  /\ created_with = <<>>
  /\ now = 0
  /\ \E transactions \in SeqsUpTo(TransactionRows, MaxTxns), checking_accounts \in CheckingAccounts, window_days \in WindowDays :
        resp = Respond("transactions", 0, NULL,
                       [user_id |-> "u1", transactions |-> transactions,
                        checking_accounts |-> checking_accounts,
                        window_days |-> window_days], NoBody)
  /\ service_calls = [w \in Workers |-> Idle]

ComputeIncomeSignals ==
  /\ resp.op = "transactions"
  /\ now' = now + 1
  /\ resp' = Respond("income_signals", 0, NULL, resp.args,
                     [provider_calls |-> 0, provider |-> NoCall,
                      signals |-> compute_income_signals(
                                     resp.args.transactions,
                                     resp.args.checking_accounts,
                                     resp.args.window_days)])
  /\ UNCHANGED << users, consent_status, consent_log, user_features, personas,
                  recommendations, operator_actions, created_with, service_calls >>

NextIncome == ComputeIncomeSignals

SpecIncome == InitIncome /\ [][NextIncome]_vars

\* -------------------------------------------------------- product matching
\* Relevance scores are in hundredths (0.5 is 50).  The two sums whose
\* floating-point value is not a whole tenth keep their side of it:
\* 0.5+0.4+0.3-0.4 = 0.7999999999999999 is 79 and
\* 0.5+0.4+0.2-0.5 = 0.6000000000000001 is 61.
investment_account_types ==
  {"brokerage", "401k", "ira", "roth_ira", "investment", "pension"}

\* accounts is the set of types of the user's accounts
detect_investment_accounts(accounts) ==
  accounts \cap investment_account_types # {}

has_hysa(accounts) == accounts \cap savings_types # {}

has_investment_account(accounts) == "investment" \in accounts

Clamp(score) == IF score < 0 THEN 0 ELSE IF score > 100 THEN 100 ELSE score

calculate_relevance_score(product, features, accounts) ==
  LET category == product.category IN
  Clamp(
    CASE category = "balance_transfer" ->
           LET avg_util == OrZero(features.avg_utilization) IN
           50 + (IF avg_util > 50 THEN 30 ELSE 0)
              + (IF features.interest_charges_present THEN 20 ELSE 0)
              + (IF avg_util > 70 THEN 20 ELSE 0)
      [] category = "hysa" ->
           LET net_savings == OrZero(features.net_savings_inflow)
               emergency_months == OrZero(features.emergency_fund_months)
               gained == 50 + (IF net_savings > 0 /\ emergency_months < 3
                                 THEN 40 ELSE 0)
                            + (IF Truthy(features.savings_growth_rate)
                                  /\ features.savings_growth_rate > 2
                                 THEN 20 ELSE 0)
           IN  IF has_hysa(accounts)
                 THEN (CASE gained = 110 -> 61
                         [] gained = 70  -> 19
                         [] OTHER        -> gained - 50)
                 ELSE gained
      [] category = "budgeting_app" ->
           LET income_var == OrZero(features.income_variability)
               buffer_days == IF Truthy(features.cash_flow_buffer_months)
                                THEN features.cash_flow_buffer_months * 30
                                ELSE 0
           IN  50 + (IF income_var > 30 THEN 30 ELSE 0)
                  + (IF buffer_days < 30 THEN 30 ELSE 0)
                  + (IF income_var > 25 THEN 20 ELSE 0)
      [] category = "subscription_manager" ->
           50 + (IF OrZero(features.recurring_merchants) >= 5 THEN 40 ELSE 0)
              + (IF OrZero(features.subscription_spend_share) > 20 THEN 30 ELSE 0)
      [] category = "robo_advisor" ->
           LET gained == 50 + (IF OrZero(features.avg_monthly_income) > 5000
                                  /\ OrZero(features.avg_utilization) < 30
                                 THEN 40 ELSE 0)
                            + (IF OrZero(features.emergency_fund_months) >= 3
                                 THEN 30 ELSE 0)
           IN  IF has_investment_account(accounts)
                 THEN (CASE gained = 120 -> 79
                         [] gained = 50  -> 9
                         [] OTHER        -> gained - 40)
                 ELSE gained
      [] OTHER -> 50)

\* persona_type without a trailing "_30d" or "_180d"
BasePersona(persona_type) ==
  CASE persona_type = "high_utilization_30d"  -> "high_utilization"
    [] persona_type = "high_utilization_180d" -> "high_utilization"
    [] persona_type = "savings_builder_30d"   -> "savings_builder"
    [] persona_type = "savings_builder_180d"  -> "savings_builder"
    [] OTHER -> persona_type

InSeq(x, seq) == \E k \in DOMAIN seq : seq[k] = x

\* persona_targets is [kind, items]: kind "list" for a JSON list, "object"
\* for JSON that is no list, "malformed" for text json.loads rejects
IsCandidate(product, base_persona) ==
  /\ product.active
  /\ product.persona_targets.kind = "list"
  /\ InSeq(base_persona, product.persona_targets.items)

\* the match dictionary of a candidate (the descriptive fields are copies
\* of the product's columns)
MatchDict(product, features, accounts) ==
  [product_id |-> product.product_id,
   category |-> product.category,
   relevance_score |-> calculate_relevance_score(product, features, accounts)]

RECURSIVE InsertByScore(_, _)
InsertByScore(sorted, match) ==
  IF sorted = <<>> THEN <<match>>
  ELSE IF Head(sorted).relevance_score >= match.relevance_score
    THEN <<Head(sorted)>> \o InsertByScore(Tail(sorted), match)
    ELSE <<match>> \o sorted

\* list.sort(key=relevance_score, reverse=True): stable
RECURSIVE SortByScore(_)
SortByScore(matches) ==
  IF matches = <<>> THEN <<>>
  ELSE InsertByScore(SortByScore(SubSeq(matches, 1, Len(matches) - 1)),
                     matches[Len(matches)])

\* catalog is the product_offers table in row order; product_id is the
\* row's position
filter_eligible_products(catalog, accounts, products, features) ==
  SelectSeq(products,
            LAMBDA product_match :
               /\ product_match.product_id \in DOMAIN catalog
               /\ check_product_eligibility(accounts,
                      catalog[product_match.product_id], features)[1])

FirstThree(matches) == SubSeq(matches, 1, IF Len(matches) < 3 THEN Len(matches) ELSE 3)

\* mutant: the list is cut to 3 before the eligibility filter
TopEligibleCutFirst(catalog, accounts, filtered_matches, features) ==
  filter_eligible_products(catalog, accounts, FirstThree(filtered_matches), features)

TopEligible(catalog, accounts, filtered_matches, features) ==
  FirstThree(filter_eligible_products(catalog, accounts, filtered_matches, features))

match_products(catalog, accounts, persona_type, features) ==
  LET base_persona == BasePersona(persona_type)
      candidate_products ==
        SelectSeq(catalog, LAMBDA product : IsCandidate(product, base_persona))
      product_matches ==
        [k \in DOMAIN candidate_products |->
            MatchDict(candidate_products[k], features, accounts)]
      filtered_matches ==
        SelectSeq(product_matches, LAMBDA match : match.relevance_score >= 50)
  IN  TopEligible(catalog, accounts, SortByScore(filtered_matches), features)

NoTargets == [kind |-> "malformed", items |-> <<>>]

Targets(items) == [kind |-> "list", items |-> items]

\* product offers without their product_id
OfferKinds ==
  { [active |-> TRUE, persona_targets |-> Targets(<<"high_utilization">>),
     category |-> "balance_transfer", min_income |-> NoNumber,
     max_credit_utilization |-> NoNumber,
     requires_no_existing_savings |-> FALSE,
     requires_no_existing_investment |-> FALSE],
    [active |-> TRUE,
     persona_targets |-> Targets(<<"high_utilization", "savings_builder">>),
     category |-> "hysa", min_income |-> 5000,
     max_credit_utilization |-> NoNumber,
     requires_no_existing_savings |-> FALSE,
     requires_no_existing_investment |-> FALSE],
    [active |-> TRUE, persona_targets |-> Targets(<<"savings_builder">>),
     category |-> "robo_advisor", min_income |-> NoNumber,
     max_credit_utilization |-> NoNumber,
     requires_no_existing_savings |-> FALSE,
     requires_no_existing_investment |-> TRUE],
    [active |-> FALSE,
     persona_targets |-> Targets(<<"high_utilization", "savings_builder">>),
     category |-> "budgeting_app", min_income |-> NoNumber,
     max_credit_utilization |-> NoNumber,
     requires_no_existing_savings |-> FALSE,
     requires_no_existing_investment |-> FALSE],
    [active |-> TRUE, persona_targets |-> NoTargets,
     category |-> "subscription_manager", min_income |-> NoNumber,
     max_credit_utilization |-> NoNumber,
     requires_no_existing_savings |-> FALSE,
     requires_no_existing_investment |-> FALSE] }

WithId(kind, product_id) ==
  [product_id |-> product_id, active |-> kind.active,
   persona_targets |-> kind.persona_targets, category |-> kind.category,
   min_income |-> kind.min_income,
   max_credit_utilization |-> kind.max_credit_utilization,
   requires_no_existing_savings |-> kind.requires_no_existing_savings,
   requires_no_existing_investment |-> kind.requires_no_existing_investment]

Catalogs ==
  {[k \in 1..MaxCatalog |-> WithId(kinds[k], k)] :
      kinds \in [1..MaxCatalog -> OfferKinds]}

MatchFeatures ==
  [avg_utilization : {20, 60}, max_utilization : {60},
   avg_monthly_income : {3000, 6000},
   interest_charges_present : {FALSE},
   net_savings_inflow : {500}, emergency_fund_months : {0, 3},
   savings_growth_rate : {NoNumber}, income_variability : {0},
   cash_flow_buffer_months : {NoNumber}, recurring_merchants : {5},
   subscription_spend_share : {10}]

MatchAccounts == {{}, {"investment"}, {"brokerage"}}

MatchPersonas == {"high_utilization_30d", "savings_builder_180d", "savings_builder"}

\* a catalog and a user's persona, features and accounts waiting to be matched
InitMatch ==
  /\ users = {"u1"}
  /\ consent_status = [u \in UserIds |-> FALSE]
  /\ consent_log = <<>>
  /\ user_features = [k \in Keys |-> NoFeature]
  /\ personas = [k \in Keys |-> NoPersona]
  /\ recommendations = <<>>
  /\ operator_actions = <<>>
  /\ created_with = <<>>
  /\ now = 0
  /\ \E catalog \in Catalogs, accounts \in MatchAccounts, persona_type \in MatchPersonas, features \in MatchFeatures :
        resp = Respond("catalog", 0, NULL,
                       [user_id |-> "u1", catalog |-> catalog,
                        accounts |-> accounts, persona_type |-> persona_type,
                        features |-> features], NoBody)
  /\ service_calls = [w \in Workers |-> Idle]

MatchProducts ==
  /\ resp.op = "catalog"
  /\ now' = now + 1
  /\ resp' = Respond("match_products", 0, NULL, resp.args,
                     [provider_calls |-> 0, provider |-> NoCall,
                      top_products |-> match_products(resp.args.catalog,
                                         resp.args.accounts,
                                         resp.args.persona_type,
                                         resp.args.features)])
  /\ UNCHANGED << users, consent_status, consent_log, user_features, personas,
                  recommendations, operator_actions, created_with, service_calls >>

NextMatch == MatchProducts

SpecMatch == InitMatch /\ [][NextMatch]_vars

\* --------------------------------------------------------- tone validation
ToneTokens == {"You're Overspending", "bad habit", "You Need To", "You Can",
               "consider", "Save", "."}

\* a text waiting to be validated
InitTone ==
  /\ users = {}
  /\ consent_status = [u \in UserIds |-> FALSE]
  /\ consent_log = <<>>
  /\ user_features = [k \in Keys |-> NoFeature]
  /\ personas = [k \in Keys |-> NoPersona]
  /\ recommendations = <<>>
  /\ operator_actions = <<>>
  /\ created_with = <<>>
  /\ now = 0
  /\ \E content \in SeqsUpTo(ToneTokens, MaxTextLen) :
        resp = Respond("text", 0, NULL, [content |-> content], NoBody)
  /\ service_calls = [w \in Workers |-> Idle]

ValidateTone ==
  /\ resp.op = "text"
  /\ now' = now + 1
  /\ resp' = Respond("validate_tone", 0, NULL, resp.args,
                     [provider_calls |-> 0, provider |-> NoCall,
                      is_valid |-> validate_tone(resp.args.content).is_valid,
                      validation_warnings |->
                        validate_tone(resp.args.content).validation_warnings])
  /\ UNCHANGED << users, consent_status, consent_log, user_features, personas,
                  recommendations, operator_actions, created_with, service_calls >>

NextTone == ValidateTone

SpecTone == InitTone /\ [][NextTone]_vars

\* ------------------------------------------------------ persona assignment
\* UserFeature rows around every threshold of the five persona checks
PersonaSnapshots ==
  [exists : {TRUE},
   recurring_merchants : {0, 3}, monthly_recurring_spend : {50},
   subscription_spend_share : {0},
   net_savings_inflow : {0}, savings_growth_rate : {0, 2},
   avg_utilization : {10, 30}, max_utilization : {20, 50, 85},
   minimum_payment_only_flag : {FALSE}, interest_charges_present : BOOLEAN,
   any_overdue : {FALSE},
   median_pay_gap_days : {<<>>, <<60>>}, cash_flow_buffer_months : {5, 10},
   avg_monthly_income : {10000, 12000}, investment_account_detected : BOOLEAN]

\* user u1 with any of these rows, or none, for the 30-day window
InitPersona ==
  /\ users = {"u1"}
  /\ consent_status = [u \in UserIds |-> FALSE]
  /\ consent_log = <<>>
  /\ \E features \in PersonaSnapshots \cup {NoFeature} :
        user_features = [k \in Keys |-> IF k = <<"u1", 30>> THEN features
                                                             ELSE NoFeature]
  /\ personas = [k \in Keys |-> NoPersona]
  /\ recommendations = <<>>
  /\ operator_actions = <<>>
  /\ created_with = <<>>
  /\ now = 0
  /\ resp = Respond("init", 0, NULL, [user_id |-> NULL], NoBody)
  /\ service_calls = [w \in Workers |-> Idle]

AssignRequest ==
  /\ now < MaxAssigns
  /\ \E u \in UserIds : assign_and_save_persona(u, 30)

NextPersona == AssignRequest

SpecPersona == InitPersona /\ [][NextPersona]_vars

\* ----------------------------------------------------------------- claims
Served == now' # now          \* the step serves a request

Target == resp.args.recommendation_id

ApproveActions(log, i) ==
  Cardinality({k \in DOMAIN log : /\ log[k].recommendation_id = i
                                  /\ log[k].action_type = "approve"})

Listed(ids, i) == \E k \in DOMAIN ids : ids[k] = i

\* C1: approving a recommendation that is 'approved' or 'rejected', and
\* rejecting one that is 'approved', fails with the conflict error (HTTP
\* 400); the stored recommendations are unchanged and no OperatorAction is
\* appended.
C1_ConflictLeavesStoreUnchanged ==
  [][ ( /\ Served
        /\ resp'.op \in {"approve", "reject"}
        /\ resp'.args.recommendation_id \in RecIds
        /\ LET status == recommendations[resp'.args.recommendation_id].status
           IN  \/ resp'.op = "approve" /\ status \in {"approved", "rejected"}
               \/ resp'.op = "reject"  /\ status = "approved" )
      => ( /\ resp'.code = 400
           /\ recommendations' = recommendations
           /\ operator_actions' = operator_actions ) ]_vars

C1_Witness ==
  /\ resp.op = "reject"
  /\ resp.code = 400
  /\ recommendations[Target].status = "approved"
  /\ recommendations[Target].approved_by = "op1"
  /\ ApproveActions(operator_actions, Target) = 1

\* C2: a recommendation that is 'approved' never becomes 'overridden':
\* an override of an approved recommendation changes neither its status
\* nor its title nor its content.
C2_ApprovedNeverOverridden ==
  [][ \A i \in RecIds :
        recommendations[i].status = "approved"
        => /\ recommendations'[i].status # "overridden"
           /\ resp'.op = "override"
                => /\ recommendations'[i].title = recommendations[i].title
                   /\ recommendations'[i].content = recommendations[i].content ]_vars

\* C3: 'overridden' and 'rejected' are terminal: a recommendation in one of
\* them keeps its status in every later step.
C3_OverriddenRejectedTerminal ==
  [][ \A i \in RecIds :
        recommendations[i].status \in {"overridden", "rejected"}
        => recommendations'[i].status = recommendations[i].status ]_vars

\* C4: a bulk approve whose batch commit does not fail handles every listed
\* id on its own: each row that is 'pending_approval' when first reached
\* becomes 'approved' by the operator with exactly one more 'approve'
\* OperatorAction, every other listing (unknown id, row not pending, second
\* listing of an id) is one failure with one error string, no other row
\* changes, and approved + failed = number of ids, len(errors) = failed.
C4_BulkApprovePerId ==
  [][ ( Served /\ resp'.op = "bulk_approve" /\ resp'.detail # "commit_failed" )
      => LET ids == resp'.args.recommendation_ids
             operator_id == resp'.args.operator_id
             body == resp'.body
             pending == {i \in RecIds : /\ Listed(ids, i)
                                        /\ recommendations[i].status = "pending_approval"}
         IN  /\ body.approved + body.failed = Len(ids)
             /\ Len(body.errors) = body.failed
             /\ body.approved = Cardinality(pending)
             /\ resp'.code = IF body.approved = 0 THEN 400 ELSE 200
             /\ Len(recommendations') = Len(recommendations)
             /\ \A i \in RecIds :
                  IF i \in pending
                    THEN /\ recommendations'[i].status = "approved"
                         /\ recommendations'[i].approved_by = operator_id
                         /\ ApproveActions(operator_actions', i)
                              = ApproveActions(operator_actions, i) + 1
                    ELSE /\ recommendations'[i] = recommendations[i]
                         /\ ApproveActions(operator_actions', i)
                              = ApproveActions(operator_actions, i)
             /\ Len(operator_actions') = Len(operator_actions) + body.approved
             /\ SubSeq(operator_actions', 1, Len(operator_actions)) = operator_actions ]_vars

\* a bulk approve that lists one pending id twice: approved once, failed once
C4_Witness ==
  /\ resp.op = "bulk_approve"
  /\ resp.code = 200
  /\ Len(resp.args.recommendation_ids) = 2
  /\ resp.args.recommendation_ids[1] = resp.args.recommendation_ids[2]
  /\ resp.body.approved = 1
  /\ resp.body.failed = 1
  /\ ApproveActions(operator_actions, resp.args.recommendation_ids[1]) = 1

\* C5: when the batch commit of a bulk approve fails, the request ends in
\* an error (HTTP 500) and nothing of the batch is stored: every
\* recommendation and the OperatorAction log are as before the request.
C5_BulkCommitFailureRollsBack ==
  [][ ( Served /\ resp'.op = "bulk_approve" /\ resp'.detail = "commit_failed" )
      => ( /\ resp'.code = 500
           /\ recommendations' = recommendations
           /\ operator_actions' = operator_actions ) ]_vars

\* a failed batch commit of a batch that had prepared approvals
C5_Witness ==
  /\ resp.op = "bulk_approve"
  /\ resp.detail = "commit_failed"
  /\ resp.body.approved >= 1
  /\ \E i \in RecIds : /\ Listed(resp.args.recommendation_ids, i)
                       /\ recommendations[i].status = "pending_approval"
                       /\ recommendations[i].approved_by = NULL

\* the (user, window) a generate request names
GenKey(r) == <<r.args.user_id, r.args.window_days>>

\* the rows of (user, window) in 'pending_approval', as the response shows them
PendingViews(user_id, window_days) ==
  LET existing == ExistingPending(user_id, window_days)
  IN  [k \in DOMAIN existing |-> RecView(existing[k])]

\* C6: a generate request for a user that does not exist, for a user whose
\* consent_status is not true, or for a (user, window) without a Persona
\* row fails, makes no provider call and leaves the stored recommendations
\* unchanged.
C6_NoGenerationWithoutConsentAndPersona ==
  [][ ( /\ Served
        /\ resp'.op = "generate"
        /\ \/ resp'.args.user_id \notin users
           \/ ~consent_status[resp'.args.user_id]
           \/ personas[GenKey(resp')] = NoPersona )
      => ( /\ resp'.code \in {400, 403, 404}
           /\ resp'.body.provider_calls = 0
           /\ recommendations' = recommendations ) ]_vars

\* a generate request refused for missing consent although a Persona exists
C6_Witness ==
  /\ resp.op = "generate"
  /\ resp.code = 403
  /\ resp.args.user_id \in users
  /\ personas[GenKey(resp)] # NoPersona
  /\ recommendations = <<>>

C8_CacheHitWheneverPending ==
  [][ ( /\ Served
        /\ resp'.op = "generate"
        /\ ~resp'.args.force_regenerate
        /\ ExistingPending(resp'.args.user_id, resp'.args.window_days) # <<>> )
      => ( /\ resp'.code = 200
           /\ resp'.body.recommendations
                = PendingViews(resp'.args.user_id, resp'.args.window_days)
           /\ resp'.body.generation_time_ms = 0
           /\ resp'.body.provider_calls = 0
           /\ recommendations' = recommendations ) ]_vars

\* C8: the same, for a user whose consent_status is true when the request
\* is served (the consent check comes before the cache).
C8_CacheHitWithConsent ==
  [][ ( /\ Served
        /\ resp'.op = "generate"
        /\ ~resp'.args.force_regenerate
        /\ resp'.args.user_id \in users
        /\ consent_status[resp'.args.user_id]
        /\ ExistingPending(resp'.args.user_id, resp'.args.window_days) # <<>> )
      => ( /\ resp'.code = 200
           /\ resp'.body.recommendations
                = PendingViews(resp'.args.user_id, resp'.args.window_days)
           /\ resp'.body.generation_time_ms = 0
           /\ resp'.body.provider_calls = 0
           /\ recommendations' = recommendations ) ]_vars

\* a cache hit that returns the one pending row of a window whose other
\* row was reviewed or created earlier
C8_Witness ==
  /\ resp.op = "generate"
  /\ resp.code = 200
  /\ ~resp.args.force_regenerate
  /\ resp.body.generation_time_ms = 0
  /\ resp.body.recommendations # <<>>
  /\ resp.body.recommendations = PendingViews(resp.args.user_id, resp.args.window_days)
  /\ Len(resp.body.recommendations) < Len(recommendations)

\* C9: when the one provider call of a generate request raises or returns
\* an empty list, the request ends in an error (HTTP 500) after exactly that
\* one call and the stored recommendations are as before the request.
C9_ProviderFailureNothingPersisted ==
  [][ ( /\ Served
        /\ resp'.op = "generate"
        /\ resp'.body.provider_calls >= 1
        /\ \/ resp'.body.provider.raises
           \/ resp'.body.provider.items = <<>> )
      => ( /\ resp'.code = 500
           /\ resp'.body.provider_calls = 1
           /\ recommendations' = recommendations
           /\ created_with' = created_with ) ]_vars

\* a generate request whose provider call returned an empty list
C9_Witness ==
  /\ resp.op = "generate"
  /\ resp.code = 500
  /\ resp.body.provider_calls = 1
  /\ ~resp.body.provider.raises
  /\ resp.body.provider.items = <<>>
  /\ personas[GenKey(resp)] # NoPersona

\* C10: a successful generation (HTTP 201) appends one row per provider
\* item, in order and whatever its tone warnings: each new row is
\* 'pending_approval', its metadata has validation_warnings equal to
\* validate_tone of the item's content, and has neither token_usage nor
\* estimated_cost_usd; the rows stored before are untouched.
C10_EveryItemPersisted ==
  [][ ( Served /\ resp'.op = "generate" /\ resp'.code = 201 )
      => LET items == resp'.body.provider.items
             n == Len(recommendations)
         IN  /\ Len(recommendations') = n + Len(items)
             /\ SubSeq(recommendations', 1, n) = recommendations
             /\ \A k \in DOMAIN items :
                  LET row == recommendations'[n + k]
                      metadata == json_loads(row.metadata_json)
                  IN  /\ row.status = "pending_approval"
                      /\ row.title = items[k].title
                      /\ "validation_warnings" \in DOMAIN metadata
                      /\ metadata["validation_warnings"]
                           = validate_tone(items[k].content).validation_warnings
                      /\ "token_usage" \notin DOMAIN metadata
                      /\ "estimated_cost_usd" \notin DOMAIN metadata ]_vars

\* a persisted row whose content drew a critical tone warning
C10_Witness ==
  /\ resp.op = "generate"
  /\ resp.code = 201
  /\ \E i \in RecIds :
       /\ recommendations[i].status = "pending_approval"
       /\ CriticalWarnings(json_loads(recommendations[i].metadata_json)
                             ["validation_warnings"]) # <<>>

\* the rows a step appended to the OperatorAction log
Appended == SubSeq(operator_actions', Len(operator_actions) + 1, Len(operator_actions'))

HasCritical(content) ==
  \E k \in DOMAIN validate_tone(content).validation_warnings :
     validate_tone(content).validation_warnings[k].severity = "critical"

\* C11: an override of an existing recommendation with new content is
\* refused for its tone (HTTP 400) exactly when validate_tone of the new
\* content has a 'critical' warning; a refused override leaves the stored
\* recommendation (status, title, content, original_content,
\* override_reason) and the OperatorAction log unchanged.
C11_OverrideBlockedIffCritical ==
  [][ ( /\ Served
        /\ resp'.op = "override"
        /\ resp'.args.recommendation_id \in RecIds
        /\ resp'.args.new_content # NoText )
      => ( /\ (resp'.code = 400) <=> HasCritical(resp'.args.new_content)
           /\ resp'.code = 400
                => /\ resp'.detail = "tone_validation"
                   /\ recommendations' = recommendations
                   /\ operator_actions' = operator_actions ) ]_vars

\* an override refused for a critical warning; the row is still pending
C11_Witness ==
  /\ resp.op = "override"
  /\ resp.code = 400
  /\ resp.detail = "tone_validation"
  /\ Target \in RecIds
  /\ recommendations[Target].status = "pending_approval"
  /\ recommendations[Target].original_content = NoJson

\* C12: the OperatorAction log only grows at its end; a successful approve,
\* override or reject appends exactly one row with the request's action
\* type, recommendation id and operator id; a successful bulk approve
\* appends one 'approve' row per recommendation it approved; a failed
\* request appends nothing.
C12_OperatorActionLogAppendOnly ==
  [][ Served =>
      /\ Len(operator_actions') >= Len(operator_actions)
      /\ SubSeq(operator_actions', 1, Len(operator_actions)) = operator_actions
      /\ resp'.code # 200 => operator_actions' = operator_actions
      /\ (resp'.code = 200 /\ resp'.op \in {"approve", "override", "reject"})
           => /\ Len(Appended) = 1
              /\ Appended[1].action_type = resp'.op
              /\ Appended[1].recommendation_id = resp'.args.recommendation_id
              /\ Appended[1].operator_id = resp'.args.operator_id
      /\ (resp'.code = 200 /\ resp'.op = "bulk_approve")
           => /\ Len(Appended) = resp'.body.approved
              /\ \A k \in DOMAIN Appended :
                   /\ Appended[k].action_type = "approve"
                   /\ Appended[k].operator_id = resp'.args.operator_id
              /\ \A i \in RecIds :
                   Cardinality({k \in DOMAIN Appended :
                                  Appended[k].recommendation_id = i})
                     = IF recommendations[i].status # recommendations'[i].status
                         THEN 1 ELSE 0 ]_vars

\* a log holding an 'override' and a 'reject' row of two successful requests
C12_Witness ==
  /\ Len(operator_actions) = 2
  /\ operator_actions[1].action_type = "override"
  /\ operator_actions[2].action_type = "reject"
  /\ resp.op = "reject"
  /\ resp.code = 200

\* the action type that brings a recommendation into a status
ActionTypeOf(status) ==
  CASE status = "approved"   -> "approve"
    [] status = "overridden" -> "override"
    [] status = "rejected"   -> "reject"
    [] OTHER                 -> NULL

\* C13: in every reachable state a recommendation whose status an operator
\* changed has the OperatorAction of that change stored (the status change
\* and its OperatorAction are written or rolled back together).
C13_StatusChangeHasOperatorAction ==
  \A i \in RecIds :
    recommendations[i].status # "pending_approval"
    => \E k \in DOMAIN operator_actions :
         /\ operator_actions[k].recommendation_id = i
         /\ operator_actions[k].action_type = ActionTypeOf(recommendations[i].status)

\* the names of the signal columns of a UserFeature row
SignalFields == DOMAIN (CHOOSE f \in FeatureSnapshots : TRUE) \ {"exists"}

\* C14: a successful feature computation leaves exactly one UserFeature row
\* for its (user, window), every signal of which is the value this call
\* returned, whatever the row held before (median_pay_gap_days goes back to
\* null when the call returns null); the rows of the other keys are
\* untouched.
C14_FeatureUpsertFullReplacement ==
  [][ ( Served /\ resp'.op = "features" /\ resp'.code = 200 )
      => ( /\ user_features'[GenKey(resp')].exists
           /\ \A f \in SignalFields :
                user_features'[GenKey(resp')][f] = resp'.body.features[f]
           /\ \A k \in Keys \ {GenKey(resp')} :
                user_features'[k] = user_features[k] ) ]_vars

\* a computation that updated an existing row and returned no pay gap
C14_Witness ==
  /\ resp.op = "features"
  /\ resp.code = 200
  /\ resp.body.updated
  /\ resp.body.features.median_pay_gap_days = <<>>
  /\ user_features[GenKey(resp)].median_pay_gap_days = <<>>
  /\ user_features[GenKey(resp)].max_utilization = 40

\* the row stored for the key of worker w's call
StoredFor(w) ==
  IF service_calls[w].kind = "features" THEN user_features[service_calls[w].key]
                                        ELSE personas[service_calls[w].key]

\* C15: under every interleaving of feature computations and of persona
\* assignments no call ends in an error, and the commit of a call leaves
\* the row of its key holding the values of that call.
C15_ConcurrentUpsertsLastWriterWins ==
  [][ \A w \in Workers :
        /\ service_calls'[w].pc # "error"
        /\ (service_calls[w].pc = "queried" /\ service_calls'[w].pc = "done")
             => \A key \in DOMAIN service_calls[w].values :
                  StoredFor(w)'[key] = service_calls[w].values[key] ]_vars

\* the priority the persona table gives a type, in hundredths
Priority(persona_type, features) ==
  CASE persona_type = "wealth_builder"     -> 100
    [] persona_type = "high_utilization"   ->
         IF features.max_utilization >= 80 THEN 95 ELSE 80
    [] persona_type = "savings_builder"    -> 70
    [] persona_type = "variable_income"    -> 60
    [] persona_type = "subscription_heavy" -> 50

\* the persona types whose predicate holds for a row
Matching(lookup, features) ==
  {t \in PersonaTypes :
     \/ t = "wealth_builder"     /\ check_wealth_builder(lookup, features)
     \/ t = "high_utilization"   /\ check_high_utilization(features)
     \/ t = "savings_builder"    /\ check_savings_builder(features)
     \/ t = "variable_income"    /\ check_variable_income(features)
     \/ t = "subscription_heavy" /\ check_subscription_heavy(features)}

\* the UserFeature row a persona request read
FeaturesRead == user_features[GenKey(resp)]

\* C16: when a UserFeature row exists and at least one persona predicate
\* holds for it, a successful assignment stores a persona whose predicate
\* holds, whose priority no other matching persona exceeds, and whose
\* confidence is that priority.
C16_HighestPriorityPersona ==
  ( /\ resp.op = "persona"
    /\ resp.code = 200
    /\ FeaturesRead.exists
    /\ Matching(resp.body.lookup, FeaturesRead) # {} )
  => LET persona == personas[GenKey(resp)]
         matching == Matching(resp.body.lookup, FeaturesRead)
     IN  /\ persona.persona_type \in matching
         /\ persona.confidence_score = Priority(persona.persona_type, FeaturesRead)
         /\ \A t \in matching :
              Priority(t, FeaturesRead) <= persona.confidence_score
         /\ resp.body.persona_type = persona.persona_type
         /\ resp.body.confidence_score = persona.confidence_score

\* max_utilization 0.85 with a variable income: high_utilization at 0.95
C16_Witness ==
  /\ resp.op = "persona"
  /\ resp.code = 200
  /\ FeaturesRead.exists
  /\ FeaturesRead.max_utilization = 85
  /\ check_variable_income(FeaturesRead)
  /\ personas[GenKey(resp)] = [persona_type |-> "high_utilization",
                               confidence_score |-> 95]

OfSeverity(validation_warnings, severity) ==
  {k \in DOMAIN validation_warnings : validation_warnings[k].severity = severity}

\* C18: validate_tone is valid exactly when it has no warnings, which is
\* exactly when the lower-cased text has no forbidden phrase and has an
\* empowering keyword; it gives one 'critical' 'forbidden_phrase' warning
\* per forbidden phrase present and one 'notable'
\* 'lacks_empowering_language' warning exactly when no empowering keyword is
\* present, and no other warning.
C18_ValidateTone ==
  resp.op = "validate_tone"
  => LET text == lower(resp.args.content)
         warnings == resp.body.validation_warnings
         present == {i \in DOMAIN forbidden_phrases :
                       Contains(text, forbidden_phrases[i])}
         empowering == \E k \in DOMAIN empowering_keywords :
                          Contains(text, empowering_keywords[k])
     IN  /\ resp.body.is_valid <=> warnings = <<>>
         /\ resp.body.is_valid <=> (present = {} /\ empowering)
         /\ Cardinality(OfSeverity(warnings, "critical")) = Cardinality(present)
         /\ \A i \in present :
              \E k \in DOMAIN warnings :
                 /\ warnings[k].severity = "critical"
                 /\ warnings[k].type = "forbidden_phrase"
                 /\ warnings[k].message[2] = forbidden_phrases[i]
         /\ \A k \in OfSeverity(warnings, "critical") :
              warnings[k].type = "forbidden_phrase"
         /\ Cardinality(OfSeverity(warnings, "notable"))
              = IF empowering THEN 0 ELSE 1
         /\ \A k \in OfSeverity(warnings, "notable") :
              warnings[k].type = "lacks_empowering_language"
         /\ Len(warnings) = Cardinality(OfSeverity(warnings, "critical"))
                            + Cardinality(OfSeverity(warnings, "notable"))

\* a text written in capitals with an empowering keyword and a forbidden
\* phrase: one critical warning, no notable one
C18_Witness ==
  /\ resp.op = "validate_tone"
  /\ resp.args.content = <<"You Can", "Save", "You're Overspending">>
  /\ ~resp.body.is_valid
  /\ Len(resp.body.validation_warnings) = 1
  /\ resp.body.validation_warnings[1].severity = "critical"

\* the ConsentLog entries of a user, oldest first
EntriesOf(user_id) ==
  SelectSeq(consent_log, LAMBDA entry : entry.user_id = user_id)

\* C19 (as stated): check_consent is true exactly for a user whose most
\* recent logged consent request was a grant; false for a user with no
\* request yet and for a missing user.
C19_ConsentFollowsLastRequest ==
  \A u \in UserIds :
     check_consent(u)
       <=> /\ EntriesOf(u) # <<>>
           /\ EntriesOf(u)[Len(EntriesOf(u))].action = "granted"

\* C19 (amended): a successful grant or revoke request of an existing user
\* makes check_consent true exactly when it was a grant and appends exactly
\* one ConsentLog entry ('granted' or 'revoked'), also when the status does
\* not change; a request that fails, and every other operation, leaves the
\* consent status and the log as they were, so that before the first
\* successful request check_consent is the status the user was ingested
\* with; check_consent is false for a missing user.
C19_ConsentFollowsLastSuccess ==
  [][ /\ \A u \in UserIds \ users : ~check_consent(u)'
      /\ IF resp'.op = "consent" /\ resp'.code = 200
           THEN /\ resp'.args.user_id \in users
                /\ \A u \in UserIds :
                      check_consent(u)'
                        = IF u = resp'.args.user_id
                            THEN resp'.args.action = "grant"
                            ELSE check_consent(u)
                /\ Len(consent_log') = Len(consent_log) + 1
                /\ SubSeq(consent_log', 1, Len(consent_log)) = consent_log
                /\ consent_log'[Len(consent_log')].user_id = resp'.args.user_id
                /\ consent_log'[Len(consent_log')].action
                     = IF resp'.args.action = "grant" THEN "granted"
                                                      ELSE "revoked"
           ELSE /\ consent_status' = consent_status
                /\ consent_log' = consent_log ]_vars

\* a second revoke in a row was answered 200 and logged again
C19_Witness ==
  /\ resp.op = "consent"
  /\ resp.code = 200
  /\ resp.args.action = "revoke"
  /\ ~check_consent(resp.args.user_id)
  /\ Len(EntriesOf(resp.args.user_id)) >= 2
  /\ \A k \in DOMAIN EntriesOf(resp.args.user_id) :
        EntriesOf(resp.args.user_id)[k].action = "revoked"

\* C20: for a product with min_income m > 0, check_product_eligibility
\* returns not-eligible whenever avg_monthly_income < m (a missing income
\* counts as 0), and the income rule does not exclude the product when
\* avg_monthly_income >= m (min_income 5000: excluded at income 3000, not
\* excluded at 6000); a product with min_income absent or 0 is never
\* excluded by the income rule.
C20_IncomeRule ==
  resp.op = "eligibility"
  => LET m == resp.args.product.min_income
         stored == resp.args.features.avg_monthly_income
         income == IF stored = NoNumber THEN 0 ELSE stored
         by_income == resp.body.result[2] = "Income below minimum requirement"
     IN  /\ (m # NoNumber /\ m > 0 /\ income < m)
              => (~resp.body.result[1] /\ by_income)
         /\ (m # NoNumber /\ m > 0 /\ income >= m) => ~by_income
         /\ (m = NoNumber \/ m = 0) => ~by_income
         /\ (m = 5000 /\ income = 3000) => ~resp.body.result[1]
         /\ (m = 5000 /\ income = 6000) => ~by_income
         /\ by_income => ~resp.body.result[1]

\* a product with min_income 5000 was refused to a user with income 3000
C20_Witness ==
  /\ resp.op = "eligibility"
  /\ resp.args.product.min_income = 5000
  /\ resp.args.features.avg_monthly_income = 3000
  /\ resp.body.result = <<FALSE, "Income below minimum requirement">>

\* C21: a product with a maximum-utilization threshold t is not eligible
\* for a user whose max_utilization exceeds t: check_product_eligibility
\* refuses whenever check_credit_eligibility with the same threshold does.
C21_UtilizationRuleUsesMax ==
  resp.op = "eligibility"
  => LET t == resp.args.product.max_credit_utilization
         row == [exists |-> TRUE,
                 max_utilization |-> resp.args.features.max_utilization]
     IN  (t # NoNumber /\ ~check_credit_eligibility(row, t))
            => ~resp.body.result[1]

\* the persona named by a persona_type, read off its parts
Stripped(persona_type) ==
  IF persona_type \in {"high_utilization_30d", "high_utilization_180d"}
    THEN "high_utilization"
  ELSE IF persona_type \in {"savings_builder_30d", "savings_builder_180d"}
    THEN "savings_builder"
  ELSE persona_type

\* C22: match_products returns at most 3 products; each is active, lists
\* the suffix-stripped persona in its targets, has a relevance score in
\* [0.5, 1.0] and passes check_product_eligibility; the result is sorted by
\* score descending; and no eligible candidate with score >= 0.5 that was
\* left out has a strictly higher score than a returned one.
C22_MatchProducts ==
  resp.op = "match_products"
  => LET catalog == resp.args.catalog
         accounts == resp.args.accounts
         features == resp.args.features
         persona == Stripped(resp.args.persona_type)
         top == resp.body.top_products
         returned == {top[k].product_id : k \in DOMAIN top}
         Score(id) == calculate_relevance_score(catalog[id], features, accounts)
         Qualifies(id) ==
           /\ catalog[id].active
           /\ catalog[id].persona_targets.kind = "list"
           /\ \E k \in DOMAIN catalog[id].persona_targets.items :
                 catalog[id].persona_targets.items[k] = persona
           /\ Score(id) >= 50
           /\ Score(id) <= 100
           /\ check_product_eligibility(accounts, catalog[id], features)[1]
     IN  /\ Len(top) <= 3
         /\ Cardinality(returned) = Len(top)
         /\ \A k \in DOMAIN top :
               /\ top[k].product_id \in DOMAIN catalog
               /\ Qualifies(top[k].product_id)
               /\ top[k].relevance_score = Score(top[k].product_id)
         /\ \A j, k \in DOMAIN top :
               j < k => top[j].relevance_score >= top[k].relevance_score
         /\ \A id \in DOMAIN catalog \ returned :
               Qualifies(id)
                 => /\ Len(top) = 3
                    /\ \A k \in DOMAIN top : Score(id) <= top[k].relevance_score

\* three eligible products were returned while a higher-scoring candidate
\* was refused for its income requirement
C22_Witness ==
  /\ resp.op = "match_products"
  /\ Len(resp.body.top_products) = 3
  /\ \E id \in DOMAIN resp.args.catalog :
        /\ IsCandidate(resp.args.catalog[id], BasePersona(resp.args.persona_type))
        /\ ~check_product_eligibility(resp.args.accounts, resp.args.catalog[id],
                                      resp.args.features)[1]
        /\ calculate_relevance_score(resp.args.catalog[id], resp.args.features,
                                     resp.args.accounts)
             > resp.body.top_products[1].relevance_score

\* balance / limit, in whole percents, of the cards with a positive limit
Ratios(cards) ==
  {((IF cards[k].balance_current = NoNumber THEN 0 ELSE cards[k].balance_current)
      * 100) \div cards[k].balance_limit :
     k \in {j \in DOMAIN cards : cards[j].balance_limit # NoNumber
                                 /\ cards[j].balance_limit > 0}}

\* C23: compute_credit_signals sets utilization_30_flag, utilization_50_flag
\* and utilization_80_flag exactly when max_utilization, the largest
\* balance/limit over the cards with limit > 0, is >= 0.30, >= 0.50 and
\* >= 0.80, so each flag implies the lower ones; one card with balance 600
\* and limit 1000 gives true, true, false; cards with limit 0 or null
\* contribute nothing.
C23_UtilizationFlags ==
  resp.op = "credit_signals"
  => LET cards == resp.args.credit_card_accounts
         signals == resp.body.signals
     IN  /\ signals.utilization_30_flag <=> signals.max_utilization >= 30
         /\ signals.utilization_50_flag <=> signals.max_utilization >= 50
         /\ signals.utilization_80_flag <=> signals.max_utilization >= 80
         /\ signals.utilization_30_flag <=> \E r \in Ratios(cards) : r >= 30
         /\ signals.utilization_50_flag <=> \E r \in Ratios(cards) : r >= 50
         /\ signals.utilization_80_flag <=> \E r \in Ratios(cards) : r >= 80
         /\ signals.utilization_80_flag => signals.utilization_50_flag
         /\ signals.utilization_50_flag => signals.utilization_30_flag
         /\ \A r \in Ratios(cards) : r <= signals.max_utilization
         /\ signals.max_utilization \in Ratios(cards) \cup {0}
         /\ (Len(cards) = 1 /\ cards[1].balance_current = 600
                            /\ cards[1].balance_limit = 1000)
              => /\ signals.utilization_30_flag
                 /\ signals.utilization_50_flag
                 /\ ~signals.utilization_80_flag

\* a card at 60% next to a card with balance 800 and no limit
C23_Witness ==
  /\ resp.op = "credit_signals"
  /\ Len(resp.args.credit_card_accounts) = 2
  /\ resp.args.credit_card_accounts[1].balance_current = 800
  /\ resp.args.credit_card_accounts[1].balance_limit = 0
  /\ resp.args.credit_card_accounts[2].balance_current = 600
  /\ resp.args.credit_card_accounts[2].balance_limit = 1000
  /\ resp.body.signals.max_utilization = 60
  /\ resp.body.signals.utilization_30_flag
  /\ resp.body.signals.utilization_50_flag
  /\ ~resp.body.signals.utilization_80_flag

\* the positions of the day gaps of a date list that are within 5 days of
\* an interval
Near(dates, interval) ==
  {i \in 1..(Len(dates) - 1) :
      /\ dates[i + 1] - dates[i] >= interval - 5
      /\ dates[i + 1] - dates[i] <= interval + 5}

\* C24: is_recurring_pattern returns true if and only if the list has at
\* least 3 dates and, for at least one interval in {7, 30, 90}, at least
\* 60% of the consecutive day gaps are within 5 days of that interval; gaps
\* [29, 31, 30] are recurring and gaps [5, 60, 3] are not.
C24_RecurringPattern ==
  resp.op = "is_recurring_pattern"
  => LET dates == resp.args.dates IN
     /\ resp.body.recurring
          <=> /\ Len(dates) >= 3
              /\ \E interval \in {7, 30, 90} :
                    5 * Cardinality(Near(dates, interval)) >= 3 * (Len(dates) - 1)
     /\ dates = <<1, 30, 61, 91>> => resp.body.recurring
     /\ dates = <<1, 6, 66, 69>> => ~resp.body.recurring

\* content is a sentence that ends with a period, then the disclosure
EndsWithDisclosure(content) ==
  /\ Len(content) >= 3
  /\ content[Len(content)] = MANDATORY_DISCLOSURE
  /\ content[Len(content) - 1] = "\n\n"
  /\ \E k \in 1..(Len(content) - 2) :
        /\ content[k] \in {".", MANDATORY_DISCLOSURE}
        /\ \A j \in (k + 1)..(Len(content) - 2) : content[j] \in {" ", "\n\n"}

\* C25: in every reachable state the content of every stored
\* recommendation ends with the mandatory disclosure text, after generation
\* and after every successful override (with or without new_content),
\* preceded by a sentence that ends with a period.
C25_ContentEndsWithDisclosure ==
  \A i \in DOMAIN recommendations :
     EndsWithDisclosure(recommendations[i].content)

\* an override replaced the content of one row by text without a period
\* while a generated row is stored next to it
C25_Witness ==
  /\ resp.op = "override"
  /\ resp.code = 200
  /\ resp.args.new_content = <<"Save">>
  /\ Len(recommendations) >= 2
  /\ \E i \in DOMAIN recommendations :
        /\ recommendations[i].status = "overridden"
        /\ recommendations[i].content
             = <<"Save", ".", "\n\n", MANDATORY_DISCLOSURE>>
  /\ \E i \in DOMAIN recommendations :
        recommendations[i].status = "pending_approval"

\* C26: generate_recommendations, with force_regenerate true or false,
\* never modifies or deletes a recommendation that already exists (a forced
\* regeneration only adds new 'pending_approval' rows next to the existing
\* ones), and compute_features, assign_persona and consent updates leave
\* every recommendation unchanged.
C26_OnlyOperatorsMutate ==
  [][ (Served /\ resp'.op \in {"generate", "features", "persona", "consent"})
      => /\ Len(recommendations') >= Len(recommendations)
         /\ \A i \in DOMAIN recommendations :
               recommendations'[i] = recommendations[i]
         /\ \A i \in DOMAIN recommendations' \ DOMAIN recommendations :
               recommendations'[i].status = "pending_approval"
         /\ (resp'.op # "generate" \/ resp'.code # 201)
               => recommendations' = recommendations ]_vars

\* a forced regeneration added a row next to a pending row of the same
\* user and window
C26_Witness ==
  /\ resp.op = "generate"
  /\ resp.code = 201
  /\ resp.args.force_regenerate
  /\ Len(recommendations) = 2
  /\ created_with[1].at < created_with[2].at
  /\ recommendations[1].status = "pending_approval"
  /\ recommendations[1].user_id = recommendations[2].user_id
  /\ recommendations[1].window_days = recommendations[2].window_days

\* C27: under any interleaving of a concurrent approve and reject of the
\* same 'pending_approval' recommendation at most one succeeds: no
\* recommendation on which an approve returned success is 'rejected', and a
\* recommendation never has both an 'approve' and a 'reject'
\* OperatorAction.
C27_ApproveRejectExclusive ==
  \A id \in RecIds :
     /\ (\E w \in Workers : /\ service_calls[w].pc = "done"
                            /\ service_calls[w].kind = "approve"
                            /\ service_calls[w].recommendation_id = id)
           => recommendations[id].status # "rejected"
     /\ ~(/\ \E k \in DOMAIN operator_actions :
                /\ operator_actions[k].recommendation_id = id
                /\ operator_actions[k].action_type = "approve"
          /\ \E k \in DOMAIN operator_actions :
                /\ operator_actions[k].recommendation_id = id
                /\ operator_actions[k].action_type = "reject")

\* C28: at the moment generate_recommendations commits new recommendations
\* for a user, that user's consent_status is true, also when a revoke of
\* the same user is served between the consent check and the commit.
C28_ConsentAtCommit ==
  [][ \A i \in DOMAIN recommendations' \ DOMAIN recommendations :
         consent_status'[recommendations'[i].user_id] ]_vars

\* C29: investment-account detection is consistent across the engines: if
\* detect_investment_accounts reports an investment account (any account of
\* type brokerage, 401k, ira, roth_ira, investment or pension), then
\* check_product_eligibility rejects every product with
\* requires_no_existing_investment and calculate_relevance_score applies
\* the existing-investment penalty to robo_advisor products (their score is
\* below the score of the same user without accounts).
C29_InvestmentDetectionConsistent ==
  (resp.op = "match_products" /\ detect_investment_accounts(resp.args.accounts))
  => \A id \in DOMAIN resp.args.catalog :
        LET product == resp.args.catalog[id] IN
        /\ product.requires_no_existing_investment
             => ~check_product_eligibility(resp.args.accounts, product,
                                           resp.args.features)[1]
        /\ product.category = "robo_advisor"
             => calculate_relevance_score(product, resp.args.features,
                                          resp.args.accounts)
                  < calculate_relevance_score(product, resp.args.features, {})

\* the UserFeature row of a user whose other signals are all zero
IncomeFeature(signals) ==
  [exists |-> TRUE,
   recurring_merchants |-> 0, monthly_recurring_spend |-> 0,
   subscription_spend_share |-> 0,
   net_savings_inflow |-> 0, savings_growth_rate |-> 0,
   avg_utilization |-> 0, max_utilization |-> 0,
   minimum_payment_only_flag |-> FALSE, interest_charges_present |-> FALSE,
   any_overdue |-> FALSE,
   median_pay_gap_days |-> signals.median_pay_gap_days,
   cash_flow_buffer_months |-> signals.cash_flow_buffer_months,
   avg_monthly_income |-> signals.avg_monthly_income,
   investment_account_detected |-> FALSE]

\* C30: for every transaction set and window, the median_pay_gap_days that
\* compute_income_signals computes is null or at most window_days, so a
\* snapshot computed with window_days <= 45 never satisfies
\* check_variable_income and assign_persona never returns variable_income
\* for the 30-day window.
C30_MedianGapWithinWindow ==
  resp.op = "income_signals"
  => LET signals  == resp.body.signals
         features == IncomeFeature(signals)
     IN  /\ \A k \in DOMAIN signals.median_pay_gap_days :
               signals.median_pay_gap_days[k] <= resp.args.window_days
         /\ resp.args.window_days <= 45
              => /\ ~check_variable_income(features)
                 /\ assign_persona([savings_balance |-> 0, has_fees |-> FALSE],
                                   features).persona_type # "variable_income"

====
